---------------------------- MODULE Spec2Model ----------------------------
(***************************************************************************)
(* A model of @rimori/playwright: the mock resolution engine of            *)
(* RimoriTestEnvironment (handleRoute over the route tables) and the       *)
(* MessageChannelSimulator (handshake, pending-outbound queue, inbound     *)
(* events, auto-responders).                                               *)
(*                                                                         *)
(* Every asynchronous function is cut at its awaits: one action per        *)
(* stretch of code that runs without suspension on the Node event loop.    *)
(***************************************************************************)
EXTENDS Integers, Sequences, FiniteSets, TLC

\* ------------------------------------------------------------------ bounds

\* Intercepted requests in one run (numbered in arrival order).
MaxRequests == 2

\* Records registered in one run, over all route keys.
MaxMocks == 2

\* Hello signals of the plugin in one run (each starts setupMessageChannel).
MaxHellos == 2

\* emit() calls of the test in one run.
MaxEmits == 3

\* Inbound events of the plugin in one run.
MaxEvents == 2

\* respond() / respondOnce() registrations of the test in one run.
MaxResponders == 1

\* respond() / respondOnce() registrations of the test in one run of the
\* removal scenarios.
MaxClosures == 2

\* Listener registrations (on, triggerOnMainPanelAction, triggerOnSidePanelAction).
MaxListeners == 2

\* Characters of a mocked text value.
MaxLen == 3

\* The one-shot records in front of the persistent record of a bucket.
MaxOnce == 2

\* ------------------------------------------------------- mock registry data

\* The value of an absent matchingMock / fallbackMock (undefined); ids start at 1.
NoMock == 0

\* options.matcher is absent
NoMatcher == "none"

\* options.error is absent
NoError == "none"

\* Two route keys: one of the backend table, one of the supabase table.
BackendKey == "POST http://localhost:3501/ai/llm-object"

SupabaseKey == "GET http://localhost:3500/rest/v1/decks"

RouteKeys == {BackendKey, SupabaseKey}

\* Request bodies: what the matchers below tell apart.
Bodies == {"lookup", "example", "malformed"}

\* Matcher functions a test registers:
\*   "lookup"  reads a field of the parsed body without guarding it:
\*             true on the lookup body, false on the example body, throws
\*             on a body that cannot be parsed;
\*   "any"     () => true.
Matchers == {"lookup", "any"}

\* Request bodies given field by field: the legacy instructions field and
\* the message list, each present or not; a text is the sequence of its
\* parts.
ViewBodies ==
    {b \in [hasInstructions : BOOLEAN,
            instructions : {<<>>, <<"lookup">>, <<"example">>},
            hasMessages : BOOLEAN,
            messages : {<<>>, <<"lookup">>, <<"lookup", "example">>}] :
        /\ b.hasInstructions <=> b.instructions # <<>>
        /\ b.hasMessages <=> b.messages # <<>>}

\* The message contents joined with newline separators.
RECURSIVE joined(_)
joined(messages) ==
    IF Len(messages) <= 1
      THEN messages
      ELSE <<Head(messages), "\n">> \o joined(Tail(messages))

\* A view of the request in which a body with a message list and without
\* the instructions field has that field, made of the message contents.
requestView_synthesized(body) ==
    IF body.hasMessages /\ ~body.hasInstructions
      THEN [body EXCEPT !.hasInstructions = TRUE, !.instructions = joined(body.messages)]
      ELSE body

\* What handleRoute hands to a matcher: the request itself.
requestView(body) == body

\* body?.instructions?.includes(word) ?? false
instructs(body, word) ==
    IF body.hasInstructions /\ \E i \in 1 .. Len(body.instructions) : body.instructions[i] = word
      THEN "true"
      ELSE "false"

\* What options.matcher(request) does: "true", "false" or "throws".
matcher(m, body) ==
    CASE m = "any" -> "true"
      [] m = "instructsLookup" -> instructs(body, "lookup")
      [] m = "instructsExample" -> instructs(body, "example")
      [] m = "lookup" /\ body = "lookup" -> "true"
      [] m = "lookup" /\ body = "example" -> "false"
      [] OTHER -> "throws"

\* The MockRecord a registration creates, before its identity is given on push.
\* value: a static payload or a function of the request.
MockShapes ==
    [matcher : Matchers \cup {NoMatcher},
     once    : BOOLEAN,
     error   : {NoError, "timedout"},
     value   : {"static", "function"}]

\* Registrations of the selection scenarios: every matcher kind, persistent and
\* one-shot, answered from a static payload.
SelectShapes == {s \in MockShapes : s.error = NoError /\ s.value = "static"}

\* Registrations of the response scenarios: one matcher kind, persistent and
\* one-shot, every way of producing the response.
OutcomeShapes == {s \in MockShapes : s.matcher = "lookup"}

\* Registrations of the termination scenarios: the persistent records of the
\* response scenarios.
PersistentShapes == {s \in OutcomeShapes : ~s.once}

\* Bodies of the response scenarios: the matcher matches, or does not.
OutcomeBodies == {"lookup", "example"}

\* ------------------------------------------------------------------- state

VARIABLES
    routes,      \* backendRoutes and supabaseRoutes (disjoint keys): key -> bucket
    nextId,      \* identity of the next MockRecord object
    req          \* the handleRoute invocation of each request

VARIABLES
    isReady,          \* MessageChannelSimulator.isReady
    pendingOutbound,  \* MessageChannelSimulator.pendingOutbound
    autoResponders,   \* MessageChannelSimulator.autoResponders: topic -> responder
    toPlugin,         \* what channel.port1.postMessage was given, in order
    inits,            \* rimori:init events dispatched (one MessageChannel each)
    emitted,          \* emit() calls made so far
    setup,            \* the setupMessageChannel invocation of each hello
    lastPost,         \* the last message given to fakeParent.postMessage
    lastForward,      \* what that call handed to window.postMessage
    helloCount,       \* hello signals carrying the configured pluginId, so far
    responders,       \* the closures respond / respondOnce created
    events            \* the handlePortMessage invocation of each inbound event

\* The listeners of the simulator and their dispatch.
VARIABLES
    listeners,        \* MessageChannelSimulator.listeners, in insertion order
    nextListener,     \* handler closures created so far, plus one
    setGen,           \* per topic: the Set objects the listeners map dropped so far
    dispatch,         \* the dispatchEvent loop of each inbound event
    handles           \* the unsubscribe functions on() returned

routeVars == <<routes, nextId, req>>

\* The tail of handleRoute: the record and resolved value it responds with.
VARIABLES
    streamMock,       \* matchingMock.isStreaming and the resolved responseValue
    fulfilled         \* what route.fulfill was given

\* The test environment around the simulator.
VARIABLES
    envStage,         \* setup(): not called, running (simulator created), completed
    usageError        \* the event API whose call last raised the usage error

\* The settings row behind the plugin_settings routes.
VARIABLES
    settings,         \* SettingsStateManager.settings
    settingsCall      \* the last call on the manager: its arguments and its result

\* The session info the built-in responders answer with.
VARIABLES
    profile           \* MessageChannelSimulator.rimoriInfo.profile

listenVars == <<listeners, nextListener, setGen, dispatch, handles>>

settingsVars == <<settings, settingsCall>>

userVars == <<profile>>

envVars == <<envStage, usageError>>

streamVars == <<streamMock, fulfilled>>

\* What the listener actions leave alone besides the simulator and the routes.
laterVars == <<streamVars, envVars, settingsVars, userVars>>

extVars == <<listenVars, laterVars>>

simVars == <<isReady, pendingOutbound, autoResponders, toPlugin, inits, emitted,
             setup, lastPost, lastForward, helloCount, responders, events>>

vars == <<routes, nextId, req, isReady, pendingOutbound, autoResponders, toPlugin,
          inits, emitted, setup, lastPost, lastForward, helloCount, responders,
          events, extVars>>

Requests == 1 .. MaxRequests

IdleReq ==
    [pc |-> "idle", key |-> BackendKey, body |-> "lookup",
     hadBucket |-> FALSE, seen |-> <<>>,
     mock |-> NoMock, matcherCalls |-> <<>>, valueCalls |-> 0,
     outcomes |-> <<>>]

InitRoutes ==
    /\ routes = <<>>
    /\ nextId = 1
    /\ req = [r \in Requests |-> IdleReq]

\* --------------------------------------------------------------- registry

\* addBackendRoute / addSupabaseRoute: create the bucket lazily, push.
pushRoute(table, routeKey, record) ==
    IF routeKey \in DOMAIN table
      THEN [table EXCEPT ![routeKey] = Append(@, record)]
      ELSE table @@ (routeKey :> <<record>>)

addBackendRoute(shape) ==
    /\ nextId <= MaxMocks
    /\ routes' = pushRoute(routes, BackendKey, [id |-> nextId] @@ shape)
    /\ nextId' = nextId + 1
    /\ UNCHANGED <<req, simVars, extVars>>

\* ------------------------------------------------------------ handleRoute

\* mocks.indexOf(mock): the position of the record object, 0 when not found.
indexOf(mocks, id) ==
    IF \E i \in 1 .. Len(mocks) : mocks[i].id = id
      THEN CHOOSE i \in 1 .. Len(mocks) : mocks[i].id = id
      ELSE 0

\* mocks.splice(index, 1)
splice(mocks, index) ==
    [i \in 1 .. (Len(mocks) - 1) |-> IF i < index THEN mocks[i] ELSE mocks[i + 1]]

\* A variant that leaves the record in the bucket.
removeOneTimeMock_keep(mock, mocks) == mocks

\* A variant without the test of the index: mocks.splice(-1, 1) removes the
\* last record when the record is not in the bucket.
removeOneTimeMock_unchecked(mock, mocks) ==
    IF ~mock.once THEN mocks
    ELSE IF indexOf(mocks, mock.id) > 0 THEN splice(mocks, indexOf(mocks, mock.id))
    ELSE IF Len(mocks) > 0 THEN splice(mocks, Len(mocks))
    ELSE mocks

\* removeOneTimeMock(mock, mocks)
removeOneTimeMock(mock, mocks) ==
    IF ~mock.once THEN mocks
    ELSE IF indexOf(mocks, mock.id) > 0 THEN splice(mocks, indexOf(mocks, mock.id))
    ELSE mocks

\* A variant that tests only for the absent bucket: if (!mocks)
noRouteHandler_absentOnly(table, routeKey) == routeKey \notin DOMAIN table

\* if (!mocks || mocks.length === 0)
noRouteHandler(table, routeKey) ==
    \/ routeKey \notin DOMAIN table
    \/ Len(table[routeKey]) = 0

\* The for loop over the bucket, from position i on: the state of the loop is
\* matchingMock, fallbackMock and the matcher calls made so far.
RECURSIVE scan(_, _, _, _, _)
scan(mocks, body, i, fallbackMock, calls) ==
    IF i > Len(mocks)
      THEN [matchingMock |-> NoMock, fallbackMock |-> fallbackMock, calls |-> calls]
    ELSE IF mocks[i].matcher # NoMatcher
      THEN IF matcher(mocks[i].matcher, requestView(body)) = "true"
             THEN [matchingMock |-> mocks[i].id, fallbackMock |-> fallbackMock,
                   calls |-> Append(calls, mocks[i].id)]
             ELSE scan(mocks, body, i + 1, fallbackMock, Append(calls, mocks[i].id))
    ELSE IF fallbackMock = NoMock
      THEN scan(mocks, body, i + 1, mocks[i].id, calls)
    ELSE scan(mocks, body, i + 1, fallbackMock, calls)

\* A variant of the loop without its break: the last matching record wins.
findMock_noBreak(mocks, body) ==
    LET hits == {i \in 1 .. Len(mocks) :
                   mocks[i].matcher # NoMatcher /\ matcher(mocks[i].matcher, body) = "true"}
        s == scan(mocks, body, 1, NoMock, <<>>)
    IN  [mock  |-> IF hits # {}
                     THEN mocks[CHOOSE i \in hits : \A j \in hits : j <= i].id
                     ELSE s.fallbackMock,
         calls |-> s.calls]

\* A variant that keeps the last matcher-less record as the fallback
\* (the loop without its !fallbackMock test).
findMock_lastFallback(mocks, body) ==
    LET bare == {i \in 1 .. Len(mocks) : mocks[i].matcher = NoMatcher}
        s == scan(mocks, body, 1, NoMock, <<>>)
    IN  [mock  |-> IF s.matchingMock # NoMock THEN s.matchingMock
                   ELSE IF bare # {}
                     THEN mocks[CHOOSE i \in bare : \A j \in bare : j <= i].id
                   ELSE NoMock,
         calls |-> s.calls]

\* A variant of the loop without its try/catch: a throwing matcher ends the
\* scan, and the records after it are never looked at.
findMock_throwStops(mocks, body) ==
    LET thrown == {i \in 1 .. Len(mocks) :
                     mocks[i].matcher # NoMatcher
                     /\ matcher(mocks[i].matcher, body) = "throws"}
        cut == IF thrown = {}
                 THEN mocks
                 ELSE SubSeq(mocks, 1, CHOOSE i \in thrown : \A j \in thrown : i <= j)
        s == scan(cut, body, 1, NoMock, <<>>)
    IN  [mock  |-> IF s.matchingMock # NoMock THEN s.matchingMock ELSE s.fallbackMock,
         calls |-> s.calls]

\* matchingMock = matchingMock ?? fallbackMock
findMock(mocks, body) ==
    LET s == scan(mocks, body, 1, NoMock, <<>>)
    IN  [mock  |-> IF s.matchingMock # NoMock THEN s.matchingMock ELSE s.fallbackMock,
         calls |-> s.calls]

\* What the route ends with
Fulfill == [type |-> "fulfill", code |-> "200"]

Abort(errorCode) == [type |-> "abort", code |-> errorCode]

Throw(message) == [type |-> "throw", code |-> message]

\* The empty-bucket branch: console.error, throw (the abort after it is dead code).
noRouteHandlerOutcome == <<Throw("No route handler found")>>

\* A variant of the no-winner branch without its return: the code after it
\* reads matchingMock.options of undefined and throws.
noMatchingMockOutcome_noReturn ==
    <<Abort("not_found"), Throw("TypeError")>>

\* The no-winner branch: console.error, route.abort('not_found'), return.
noMatchingMockOutcome == <<Abort("not_found")>>

\* The record object with this id, as registered (records are immutable).
recordOf(r) ==
    LET s == req[r].seen
    IN  s[CHOOSE i \in 1 .. Len(s) : s[i].id = req[r].mock]

\* handleRoute up to its first await: the route key, the bucket, the scan.
handleRoute(r, key, body) ==
    /\ req[r].pc = "idle"
    /\ \A q \in Requests : q < r => req[q].pc # "idle"
    /\ LET arrived == [req[r] EXCEPT !.key = key, !.body = body,
                         !.hadBucket = key \in DOMAIN routes,
                         !.seen = IF key \in DOMAIN routes THEN routes[key] ELSE <<>>]
       IN  IF noRouteHandler(routes, key)
             THEN req' = [req EXCEPT ![r] =
                            [arrived EXCEPT !.pc = "done",
                                            !.outcomes = noRouteHandlerOutcome]]
             ELSE LET f == findMock(routes[key], body)
                  IN  IF f.mock = NoMock
                        THEN req' = [req EXCEPT ![r] =
                               [arrived EXCEPT !.pc = "done",
                                               !.matcherCalls = f.calls,
                                               !.outcomes = noMatchingMockOutcome]]
                        ELSE req' = [req EXCEPT ![r] =
                               [arrived EXCEPT !.pc = "delay",
                                               !.matcherCalls = f.calls,
                                               !.mock = f.mock]]
    /\ UNCHANGED <<routes, nextId, simVars, extVars>>

\* A variant of the error branch that aborts with the default category.
errorOutcome_failed(mock) == Abort("failed")

\* if (options?.error) return await route.abort(options.error)
errorOutcome(mock) == Abort(mock.error)

\* After the setTimeout: removeOneTimeMock, then the error branch, the value
\* function (awaited) or the static value (fulfilled at once).
afterDelay(r) ==
    /\ req[r].pc = "delay"
    /\ LET mock == recordOf(r)
       IN  /\ routes' = [routes EXCEPT ![req[r].key] = removeOneTimeMock(mock, @)]
           /\ IF mock.error # NoError
                THEN req' = [req EXCEPT ![r].pc = "done",
                                        ![r].outcomes = Append(@, errorOutcome(mock))]
              ELSE IF mock.value = "function"
                THEN req' = [req EXCEPT ![r].pc = "value",
                                        ![r].valueCalls = @ + 1]
              ELSE req' = [req EXCEPT ![r].pc = "done",
                                      ![r].outcomes = Append(@, Fulfill)]
    /\ UNCHANGED <<nextId, simVars, extVars>>

\* The awaited value function settles: with a value (fulfilled) or by throwing.
valueSettled(r) ==
    /\ req[r].pc = "value"
    /\ \/ req' = [req EXCEPT ![r].pc = "done", ![r].outcomes = Append(@, Fulfill)]
       \/ req' = [req EXCEPT ![r].pc = "done",
                             ![r].outcomes = Append(@, Throw("value function threw"))]
    /\ UNCHANGED <<routes, nextId, simVars, extVars>>

\* ------------------------------------------------ MessageChannelSimulator

\* The pluginId the simulator was constructed with, and another plugin's.
PluginId == "pl7720512027"

OtherPluginId == "pl0000000000"

\* What the plugin hands to window.parent.postMessage.
ParentMessages ==
    [type : {"rimori:hello", "rimori:acknowledged", "other"},
     pluginId : {PluginId, OtherPluginId}]

\* No message (nothing posted, nothing forwarded).
NoMessage == [type |-> "none", pluginId |-> "none"]

\* A hello test that leaves out the comparison of the plugin identifier.
isHello_anyPlugin(payload, pluginId) == payload.type = "rimori:hello"

\* payload.type === 'rimori:hello' && payload.pluginId === pluginId
isHello(payload, pluginId) ==
    payload.type = "rimori:hello" /\ payload.pluginId = pluginId

\* payload.type === 'rimori:acknowledged' && payload.pluginId === pluginId
isAcknowledged(payload, pluginId) ==
    payload.type = "rimori:acknowledged" /\ payload.pluginId = pluginId

\* Topics: one a test registers responders for, one with a built-in responder.
UserTopic == "deck.requestOpenToday"

BuiltinTopic == "global.profile.requestUserInfo"

Topics == {UserTopic, BuiltinTopic}

\* `${pluginId}.action.requestMain`
PanelTopic == "pl7720512027.action.requestMain"

\* `${pluginId}.action.requestSidebar`
SidebarTopic == "pl7720512027.action.requestSidebar"

\* The topic of the built-in responder for the session info.
AccessTopic == "global.supabase.requestAccess"

\* The topics registerAutoResponders sets a responder for.
BuiltinTopics == {AccessTopic, BuiltinTopic}

AllTopics == Topics \cup {PanelTopic, SidebarTopic, AccessTopic}

\* The profiles of a session: the one the simulator is constructed with and
\* one a test sets.
UserInfos == {"default", "override"}

DefaultUserInfo == "default"

\* autoResponders.get(topic) is undefined
NoResponder == [kind |-> "none", id |-> 0]

\* The responder registerAutoResponders sets in the constructor.
BuiltinResponder == [kind |-> "builtin", id |-> 0]

Hellos == 1 .. MaxHellos

Events == 1 .. MaxEvents

ResponderIds == 1 .. MaxResponders

\* The eventIds a plugin's event carries: 0 and a positive one.
EventIds == {0, 1}

\* The eventId field of a plugin's event: absent, or one of EventIds.
EventPayloads ==
    {[hasEventId |-> FALSE, eventId |-> 0]} \cup [hasEventId : {TRUE}, eventId : EventIds]

IdleSetup == [pc |-> "idle", batch |-> <<>>]

\* A closure not created yet.
NoClosure == [kind |-> "none", topic |-> UserTopic, used |-> FALSE, called |-> FALSE]

IdleEvent ==
    [pc |-> "idle", topic |-> UserTopic, hasEventId |-> FALSE, eventId |-> 0,
     found |-> NoResponder, data |-> NoResponder]

\* The simulator after its constructor.
InitSim ==
    /\ isReady = FALSE
    /\ pendingOutbound = <<>>
    /\ autoResponders = [t \in AllTopics |->
                           IF t \in BuiltinTopics THEN BuiltinResponder ELSE NoResponder]
    /\ profile = DefaultUserInfo
    /\ toPlugin = <<>>
    /\ inits = 0
    /\ emitted = 0
    /\ setup = [h \in Hellos |-> IdleSetup]
    /\ lastPost = NoMessage
    /\ lastForward = NoMessage
    /\ helloCount = 0
    /\ responders = [i \in ResponderIds |-> NoClosure]
    /\ events = [e \in Events |-> IdleEvent]

\* The simulator's channel after one hello was handled with nothing queued.
InitChannel ==
    /\ isReady = TRUE
    /\ pendingOutbound = <<>>
    /\ autoResponders = [t \in AllTopics |->
                           IF t \in BuiltinTopics THEN BuiltinResponder ELSE NoResponder]
    /\ profile = DefaultUserInfo
    /\ toPlugin = <<>>
    /\ inits = 1
    /\ emitted = 0
    /\ setup = [h \in Hellos |-> IF h = 1 THEN [pc |-> "done", batch |-> <<>>]
                                           ELSE IdleSetup]
    /\ lastPost = [type |-> "rimori:hello", pluginId |-> PluginId]
    /\ lastForward = NoMessage
    /\ helloCount = 1
    /\ events = [e \in Events |-> IdleEvent]

\* The simulator after one hello was handled with nothing queued: Ready.
InitReady == InitChannel /\ responders = [i \in ResponderIds |-> NoClosure]

\* The closures the removal scenarios can create.
ClosureIds == 1 .. MaxClosures

\* The message emit() builds; queued records whether emit() found the
\* simulator not Ready (the message has no such field: it is kept for the
\* properties).
EventMessage(n, queued) == [type |-> "event", n |-> n, queued |-> queued]

\* The message maybeRespond builds.
ResponseMessage(eventId, topic, data) ==
    [type |-> "response", eventId |-> eventId, topic |-> topic, data |-> data]

\* sendToPlugin: page.evaluate of the bridge, which posts on channel.port1.
\* The page runs the evaluate calls in the order they were issued.
sendToPlugin(port, message) == Append(port, message)

\* setupMessageChannel up to its await: the isReady guard, then the
\* page.evaluate that builds a MessageChannel and dispatches rimori:init.
setupMessageChannel(h) ==
    IF isReady
      THEN /\ setup' = [setup EXCEPT ![h].pc = "done"]
           /\ UNCHANGED inits
      ELSE /\ setup' = [setup EXCEPT ![h].pc = "evaluate"]
           /\ inits' = inits + 1

\* fakeParent.postMessage(message): a hello of this plugin calls the
\* __rimoriSimulator_onHello binding (setupMessageChannel), an acknowledged of
\* this plugin is dropped, anything else goes to window.postMessage.
postMessage(message) ==
    /\ lastPost' = message
    /\ helloCount' = IF message.type = "rimori:hello" /\ message.pluginId = PluginId
                       THEN helloCount + 1 ELSE helloCount
    /\ IF isHello(message, PluginId)
         THEN /\ \E h \in Hellos :
                   /\ setup[h].pc = "idle"
                   /\ \A g \in Hellos : g < h => setup[g].pc # "idle"
                   /\ setupMessageChannel(h)
              /\ lastForward' = NoMessage
       ELSE IF isAcknowledged(message, PluginId)
         THEN /\ lastForward' = NoMessage
              /\ UNCHANGED <<setup, inits>>
       ELSE /\ lastForward' = message
            /\ UNCHANGED <<setup, inits>>
    /\ UNCHANGED <<isReady, pendingOutbound, autoResponders, toPlugin, emitted,
                   responders, events, routeVars, extVars>>

\* setupMessageChannel after its await: isReady = true, then flushPending up
\* to its first await (splice(0), the first sendToPlugin).
setupResumed(h) ==
    /\ setup[h].pc = "evaluate"
    /\ isReady' = TRUE
    /\ pendingOutbound' = <<>>
    /\ IF Len(pendingOutbound) = 0
         THEN /\ setup' = [setup EXCEPT ![h].pc = "done"]
              /\ UNCHANGED toPlugin
         ELSE /\ setup' = [setup EXCEPT ![h].pc = "flush",
                                        ![h].batch = Tail(pendingOutbound)]
              /\ toPlugin' = sendToPlugin(toPlugin, Head(pendingOutbound))
    /\ UNCHANGED <<autoResponders, inits, emitted, lastPost, lastForward, helloCount,
                   responders, events, routeVars, extVars>>

\* A variant of the loop of flushPending that ends after its first message.
flushNext_firstOnly(h) ==
    /\ setup[h].pc = "flush"
    /\ setup' = [setup EXCEPT ![h].pc = "done", ![h].batch = <<>>]
    /\ UNCHANGED <<isReady, pendingOutbound, autoResponders, toPlugin, inits, emitted,
                   lastPost, lastForward, helloCount, responders, events, routeVars,
                   extVars>>

\* flushPending after an awaited sendToPlugin: the next message of the spliced
\* list, or the end of the loop.
flushNext(h) ==
    /\ setup[h].pc = "flush"
    /\ IF Len(setup[h].batch) = 0
         THEN /\ setup' = [setup EXCEPT ![h].pc = "done"]
              /\ UNCHANGED toPlugin
         ELSE /\ setup' = [setup EXCEPT ![h].batch = Tail(@)]
              /\ toPlugin' = sendToPlugin(toPlugin, Head(setup[h].batch))
    /\ UNCHANGED <<isReady, pendingOutbound, autoResponders, inits, emitted, lastPost,
                   lastForward, helloCount, responders, events, routeVars, extVars>>

\* A variant of emit without its test of isReady.
emit_unguarded ==
    /\ emitted < MaxEmits
    /\ emitted' = emitted + 1
    /\ toPlugin' = sendToPlugin(toPlugin, EventMessage(emitted + 1, FALSE))
    /\ UNCHANGED <<isReady, pendingOutbound, autoResponders, inits, setup, lastPost,
                   lastForward, helloCount, responders, events, routeVars, extVars>>

\* emit(topic, data, sender): queue while not Ready, else sendToPlugin.
emit ==
    /\ emitted < MaxEmits
    /\ emitted' = emitted + 1
    /\ IF ~isReady
         THEN /\ pendingOutbound' = Append(pendingOutbound, EventMessage(emitted + 1, TRUE))
              /\ UNCHANGED toPlugin
         ELSE /\ toPlugin' = sendToPlugin(toPlugin, EventMessage(emitted + 1, FALSE))
              /\ UNCHANGED pendingOutbound
    /\ UNCHANGED <<isReady, autoResponders, inits, setup, lastPost, lastForward,
                   helloCount, responders, events, routeVars, extVars>>

\* The first closure slot not used yet.
freshResponder(i) ==
    /\ responders[i].kind = "none"
    /\ \A j \in DOMAIN responders : j < i => responders[j].kind # "none"

\* A variant of respond that keeps the responder a topic already has.
respond_keepFirst(topic) ==
    /\ \E i \in DOMAIN responders :
         /\ freshResponder(i)
         /\ responders' = [responders EXCEPT ![i] =
                             [kind |-> "respond", topic |-> topic, used |-> FALSE,
                              called |-> FALSE]]
         /\ autoResponders' = IF autoResponders[topic] = NoResponder
                                THEN [autoResponders EXCEPT ![topic] =
                                        [kind |-> "respond", id |-> i]]
                                ELSE autoResponders
    /\ UNCHANGED <<isReady, pendingOutbound, toPlugin, inits, emitted, setup, lastPost,
                   lastForward, helloCount, events, routeVars, extVars>>

\* respond(topic, responder): autoResponders.set(topic, wrappedResponder)
respond(topic) ==
    /\ \E i \in DOMAIN responders :
         /\ freshResponder(i)
         /\ responders' = [responders EXCEPT ![i] =
                             [kind |-> "respond", topic |-> topic, used |-> FALSE,
                              called |-> FALSE]]
         /\ autoResponders' = [autoResponders EXCEPT ![topic] =
                                 [kind |-> "respond", id |-> i]]
    /\ UNCHANGED <<isReady, pendingOutbound, toPlugin, inits, emitted, setup, lastPost,
                   lastForward, helloCount, events, routeVars, extVars>>

\* respondOnce(topic, responder): let used = false;
\* autoResponders.set(topic, wrappedResponder)
respondOnce(topic) ==
    /\ \E i \in DOMAIN responders :
         /\ freshResponder(i)
         /\ responders' = [responders EXCEPT ![i] =
                             [kind |-> "respondOnce", topic |-> topic, used |-> FALSE,
                              called |-> FALSE]]
         /\ autoResponders' = [autoResponders EXCEPT ![topic] =
                                 [kind |-> "respondOnce", id |-> i]]
    /\ UNCHANGED <<isReady, pendingOutbound, toPlugin, inits, emitted, setup, lastPost,
                   lastForward, helloCount, events, routeVars, extVars>>

\* A variant of the function respondOnce returned without its test of used.
removeResponder_always(i) ==
    /\ responders[i].kind # "none"
    /\ autoResponders' = [autoResponders EXCEPT ![responders[i].topic] = NoResponder]
    /\ responders' = [responders EXCEPT ![i].used = (responders[i].kind = "respondOnce"),
                                        ![i].called = TRUE]
    /\ UNCHANGED <<isReady, pendingOutbound, toPlugin, inits, emitted, setup, lastPost,
                   lastForward, helloCount, events, routeVars, extVars>>

\* The function respond / respondOnce returned, called by the test:
\* respond's deletes the topic's entry; respondOnce's does so if not used
\* yet. called records that the test has called it (the closure has no such
\* field: it is kept for the properties).
removeResponder(i) ==
    /\ responders[i].kind # "none"
    /\ IF responders[i].kind = "respond"
         THEN /\ autoResponders' = [autoResponders EXCEPT ![responders[i].topic] = NoResponder]
              /\ responders' = [responders EXCEPT ![i].called = TRUE]
       ELSE IF ~responders[i].used
         THEN /\ autoResponders' = [autoResponders EXCEPT ![responders[i].topic] = NoResponder]
              /\ responders' = [responders EXCEPT ![i].used = TRUE, ![i].called = TRUE]
       ELSE /\ responders' = [responders EXCEPT ![i].called = TRUE]
            /\ UNCHANGED autoResponders
    /\ UNCHANGED <<isReady, pendingOutbound, toPlugin, inits, emitted, setup, lastPost,
                   lastForward, helloCount, events, routeVars, extVars>>

ListenerIds == 1 .. MaxListeners

\* What a handler given to on() does: nothing, something awaited, throwing
\* an exception, or the handler of triggerOnMainPanelAction /
\* triggerOnSidePanelAction.
ListenerKinds == {"noop", "async", "throws", "panel"}

\* No dispatch loop running.
NoDispatch == [last |-> 0, gen |-> 0, kind |-> "none", running |-> FALSE]

\* An on() call not made yet.
NoHandle == [fn |-> 0, topic |-> "none", kind |-> "none", called |-> FALSE]

\* The function on() returned for a call that added its handler to the Set:
\* it closes over the topic and the handler function; fn is the id the
\* handler function was first added under.
handleOf(fn, topic, kind) == [fn |-> fn, topic |-> topic, kind |-> kind, called |-> FALSE]

\* The simulator's listeners after its constructor.
InitListeners ==
    /\ listeners = <<>>
    /\ nextListener = 1
    /\ setGen = [t \in AllTopics |-> 0]
    /\ dispatch = [e \in Events |-> NoDispatch]
    /\ handles = [c \in ListenerIds |-> NoHandle]

\* this.listeners.get(topic), in insertion order
handlersOf(registered, topic) == SelectSeq(registered, LAMBDA l : l.topic = topic)

\* existing.delete(handler); if (existing.size === 0) this.listeners.delete(topic)
deleteHandler(registered, id) == SelectSeq(registered, LAMBDA l : l.id # id)

\* The unsubscribe function on() returned, for handler id of the topic: the
\* Set of the topic is dropped from the map when it becomes empty.
unsubscribed(id, topic) ==
    /\ listeners' = deleteHandler(listeners, id)
    /\ setGen' = IF /\ Len(handlersOf(listeners, topic)) > 0
                    /\ Len(handlersOf(deleteHandler(listeners, id), topic)) = 0
                   THEN [setGen EXCEPT ![topic] = @ + 1]
                   ELSE setGen

\* on(topic, handler): handlers.add(handler)
on(topic, kind) ==
    /\ nextListener <= MaxListeners
    /\ listeners' = Append(listeners, [id |-> nextListener, topic |-> topic, kind |-> kind])
    /\ nextListener' = nextListener + 1
    /\ handles' = [handles EXCEPT ![nextListener] = handleOf(nextListener, topic, kind)]
    /\ UNCHANGED <<setGen, dispatch, simVars, routeVars, laterVars>>

\* The entries of the listeners that hold handler function fn.
entriesOf(registered, fn) == SelectSeq(registered, LAMBDA l : handles[l.id].fn = fn)

\* on(topic, handler) with a handler function the test passed to on() before,
\* for the same topic, in call c: handlers.add(handler) adds nothing when the
\* Set still holds the function, and adds it at the end when it does not.
onAgain(c) ==
    /\ nextListener <= MaxListeners
    /\ handles[c].fn = c
    /\ handles[c].kind # "panel"
    /\ IF Len(entriesOf(listeners, c)) > 0
         THEN UNCHANGED <<listeners, nextListener, handles>>
         ELSE /\ listeners' = Append(listeners, [id |-> nextListener,
                                                 topic |-> handles[c].topic,
                                                 kind |-> handles[c].kind])
              /\ nextListener' = nextListener + 1
              /\ handles' = [handles EXCEPT ![nextListener] =
                               handleOf(c, handles[c].topic, handles[c].kind)]
    /\ UNCHANGED <<setGen, dispatch, simVars, routeVars, laterVars>>

\* on(topic, handler) with the handler of triggerOnMainPanelAction /
\* triggerOnSidePanelAction, which emits the payload and then unsubscribes
\* itself.
onPanelAction(topic) ==
    /\ nextListener <= MaxListeners
    /\ listeners' = Append(listeners,
                      [id |-> nextListener, topic |-> topic, kind |-> "panel"])
    /\ nextListener' = nextListener + 1
    /\ handles' = [handles EXCEPT ![nextListener] = handleOf(nextListener, topic, "panel")]
    /\ UNCHANGED <<setGen, dispatch, simVars, routeVars, laterVars>>

\* The test calls the function the on() call with this id returned:
\* existing.delete(handler) removes the handler function from the Set of the
\* topic if the Set holds it, whichever call added it.
off(id) ==
    /\ handles[id] # NoHandle
    /\ handles[id].kind # "panel"
    /\ LET held == entriesOf(listeners, handles[id].fn)
       IN  IF Len(held) = 0
             THEN UNCHANGED <<listeners, setGen>>
             ELSE unsubscribed(held[1].id, handles[id].topic)
    /\ handles' = [handles EXCEPT ![id].called = TRUE]
    /\ UNCHANGED <<nextListener, dispatch, simVars, routeVars, laterVars>>

\* The message the handler of triggerOnMainPanelAction emits.
PanelMessage(id) == [type |-> "event", topic |-> PanelTopic, payload |-> id]

\* await handler(event): the handler runs up to its first await. The panel
\* handler calls emit(topic, actionPayload, sender), which queues or sends.
invoke(e, l, gen) ==
    /\ dispatch' = [dispatch EXCEPT ![e] = [last |-> l.id, gen |-> gen, kind |-> l.kind,
                                            running |-> l.kind \in {"async", "panel"}]]
    /\ IF l.kind # "panel"
         THEN UNCHANGED <<toPlugin, pendingOutbound>>
       ELSE IF ~isReady
         THEN /\ pendingOutbound' = Append(pendingOutbound, PanelMessage(l.id))
              /\ UNCHANGED toPlugin
       ELSE /\ toPlugin' = sendToPlugin(toPlugin, PanelMessage(l.id))
            /\ UNCHANGED pendingOutbound

\* A variant of the loop that calls the handler without awaiting it.
handlerPc_noAwait(kind) == "loop"

\* A variant of the loop with a try/catch around the handler call.
handlerPc_catch(kind) == IF kind \in {"noop", "throws"} THEN "loop" ELSE "handler"

\* Where the loop of dispatchEvent stands after it called a handler: in the
\* loop, in the await of the handler, or left by the handler's exception,
\* which rejects handlePortMessage.
handlerPc(kind) ==
    IF kind = "noop" THEN "loop"
    ELSE IF kind = "throws" THEN "rejected"
    ELSE "handler"

\* handlePortMessage(payload) for a payload with an event, up to its first
\* await: dispatchEvent returns at once if the topic has no listeners, else
\* it calls the first of them. The plugin posts on its port, so a channel
\* exists.
handlePortMessage(e, topic, payload) ==
    /\ inits > 0
    /\ events[e].pc = "idle"
    /\ \A d \in Events : d < e => events[d].pc # "idle"
    /\ LET handlers == handlersOf(listeners, topic)
           arrived == [IdleEvent EXCEPT !.topic = topic,
                                        !.hasEventId = payload.hasEventId,
                                        !.eventId = payload.eventId]
       IN  IF Len(handlers) = 0
             THEN /\ events' = [events EXCEPT ![e] = [arrived EXCEPT !.pc = "respond"]]
                  /\ UNCHANGED <<toPlugin, pendingOutbound, dispatch>>
             ELSE /\ events' = [events EXCEPT ![e] =
                                  [arrived EXCEPT !.pc = handlerPc(handlers[1].kind)]]
                  /\ invoke(e, handlers[1], setGen[topic])
    /\ UNCHANGED <<isReady, autoResponders, inits, emitted, setup, lastPost, lastForward,
                   helloCount, responders, listeners, nextListener, setGen, handles,
                   routeVars, laterVars>>

\* The handler dispatchEvent awaits goes on after its own await and returns:
\* the panel handler calls off() after its awaited emit.
handlerResumed(e) ==
    /\ events[e].pc = "handler"
    /\ events' = [events EXCEPT ![e].pc = "loop"]
    /\ dispatch' = [dispatch EXCEPT ![e].running = FALSE]
    /\ IF dispatch[e].kind = "panel"
         THEN unsubscribed(dispatch[e].last, events[e].topic)
         ELSE UNCHANGED <<listeners, setGen>>
    /\ UNCHANGED <<isReady, pendingOutbound, autoResponders, toPlugin, inits, emitted,
                   setup, lastPost, lastForward, helloCount, responders, nextListener,
                   handles, routeVars, laterVars>>

\* The handlers the for-of loop over the Set has not visited yet.
remaining(e) ==
    IF setGen[events[e].topic] # dispatch[e].gen
      THEN <<>>
      ELSE SelectSeq(handlersOf(listeners, events[e].topic),
                     LAMBDA l : l.id > dispatch[e].last)

\* dispatchEvent after an awaited handler: the next handler of the Set, or the
\* end of the loop.
nextHandler(e) ==
    /\ events[e].pc = "loop"
    /\ IF Len(remaining(e)) = 0
         THEN /\ events' = [events EXCEPT ![e].pc = "respond"]
              /\ UNCHANGED <<toPlugin, pendingOutbound, dispatch>>
         ELSE /\ events' = [events EXCEPT ![e].pc = handlerPc(remaining(e)[1].kind)]
              /\ invoke(e, remaining(e)[1], dispatch[e].gen)
    /\ UNCHANGED <<isReady, autoResponders, inits, emitted, setup, lastPost, lastForward,
                   helloCount, responders, listeners, nextListener, setGen, handles,
                   routeVars, laterVars>>

\* What a built-in responder returns: a clone of the session info, or of its
\* profile, as it is when the responder is called.
cloneRimoriInfo(topic) ==
    [kind |-> "builtin", id |-> 0,
     info |-> IF topic = AccessTopic THEN "rimoriInfo" ELSE "userInfo",
     profile |-> profile]

\* The responder a response's data came from.
responderOf(data) == [kind |-> data.kind, id |-> data.id]

\* this.rimoriInfo.profile = userInfo
setUserInfo(userInfo) ==
    /\ profile' = userInfo
    /\ UNCHANGED <<simVars, routeVars, listenVars, streamVars, envVars, settingsVars>>

\* if (!event.eventId)
noEventId(event) == ~event.hasEventId \/ event.eventId = 0

\* maybeRespond up to its await of the responder: the eventId test, the
\* lookup, the call of the wrapped responder (respondOnce's marks itself used
\* and deletes the topic's entry before it produces the data).
maybeRespond(e) ==
    /\ events[e].pc = "respond"
    /\ LET responder == autoResponders[events[e].topic]
       IN  IF noEventId(events[e]) \/ responder = NoResponder
             THEN /\ events' = [events EXCEPT ![e].pc = "done", ![e].found = responder]
                  /\ UNCHANGED <<autoResponders, responders>>
           ELSE IF responder.kind = "respondOnce"
             THEN IF responders[responder.id].used
                    THEN /\ events' = [events EXCEPT ![e].pc = "send",
                                                     ![e].found = responder]
                         /\ UNCHANGED <<autoResponders, responders>>
                    ELSE /\ events' = [events EXCEPT ![e].pc = "send",
                                                     ![e].found = responder,
                                                     ![e].data = responder]
                         /\ responders' = [responders EXCEPT ![responder.id].used = TRUE]
                         /\ autoResponders' = [autoResponders EXCEPT
                                                 ![events[e].topic] = NoResponder]
           ELSE /\ events' = [events EXCEPT
                              ![e].pc = "send",
                              ![e].found = responder,
                              ![e].data = IF responder.kind = "builtin"
                                            THEN cloneRimoriInfo(events[e].topic)
                                            ELSE responder]
                /\ UNCHANGED <<autoResponders, responders>>
    /\ UNCHANGED <<isReady, pendingOutbound, toPlugin, inits, emitted, setup, lastPost,
                   lastForward, helloCount, routeVars, extVars>>

\* maybeRespond after the responder's data arrived: the response is sent.
\* maybeRespond for an event whose responder throws: the wrapper of
\* respondOnce has marked itself used and deleted its entry before it called
\* the test's function; nothing catches the exception, handlePortMessage
\* is rejected with it.
responderThrew(e) ==
    /\ events[e].pc = "respond"
    /\ ~noEventId(events[e])
    /\ LET responder == autoResponders[events[e].topic]
       IN  /\ responder.kind \in {"respond", "respondOnce"}
           /\ events' = [events EXCEPT ![e].pc = "rejected", ![e].found = responder]
           /\ IF responder.kind = "respondOnce"
                THEN /\ ~responders[responder.id].used
                     /\ responders' = [responders EXCEPT ![responder.id].used = TRUE]
                     /\ autoResponders' = [autoResponders EXCEPT
                                             ![events[e].topic] = NoResponder]
                ELSE UNCHANGED <<autoResponders, responders>>
    /\ UNCHANGED <<isReady, pendingOutbound, toPlugin, inits, emitted, setup, lastPost,
                   lastForward, helloCount, routeVars, extVars>>

sendResponse(e) ==
    /\ events[e].pc = "send"
    /\ toPlugin' = sendToPlugin(toPlugin,
                     ResponseMessage(events[e].eventId, events[e].topic, events[e].data))
    /\ events' = [events EXCEPT ![e].pc = "done"]
    /\ UNCHANGED <<isReady, pendingOutbound, autoResponders, inits, emitted, setup,
                   lastPost, lastForward, helloCount, responders, routeVars, extVars>>

\* --------------------------------------------------------- settings state
\* SettingsStateManager keeps one PluginSettings row or null.  The row is
\* modelled as a function from its keys to a value; Absent marks a key the
\* object does not have.  Three identity keys and one payload key stand for
\* the six keys of PluginSettings: is_guild_setting and user_id are merged
\* exactly as the settings key is.

SettingsKeys == {"id", "plugin_id", "guild_id", "settings"}

IdentityKeys == {"id", "plugin_id", "guild_id"}

Absent == "absent"

\* null, as a value comparable with a row: no key holds anything.
NullSettings == [k \in SettingsKeys |-> "null"]

DefaultId == "settings-id"

GuildId == "guild-1"

EmptyPayload == "{}"

\* What a test or a request body can put under each key.
SettingsValues ==
    [id |-> {DefaultId, "other-id"},
     plugin_id |-> {PluginId, OtherPluginId},
     guild_id |-> {GuildId, "guild-2"},
     settings |-> {EmptyPayload, "{theme}"}]

\* Partial<PluginSettings>: every key is optional.
PartialSettings ==
    {p \in [SettingsKeys -> {Absent} \cup UNION {SettingsValues[k] : k \in SettingsKeys}] :
        \A k \in SettingsKeys : p[k] \in {Absent} \cup SettingsValues[k]}

SettingsRows == PartialSettings \cup {NullSettings}

NoSettingsCall == [op |-> "none"]

\* The value of initialSettings?.key ?? fallback.
orDefault(initialSettings, key, fallback) ==
    IF initialSettings = NullSettings \/ initialSettings[key] = Absent
    THEN fallback
    ELSE initialSettings[key]

\* A constructor that keeps what it is given: null stays null.
construct_asGiven(initialSettings) == initialSettings

\* new SettingsStateManager(initialSettings, pluginId, guildId)
construct(initialSettings) ==
    [id |-> orDefault(initialSettings, "id", DefaultId),
     plugin_id |-> orDefault(initialSettings, "plugin_id", PluginId),
     guild_id |-> orDefault(initialSettings, "guild_id", GuildId),
     settings |-> orDefault(initialSettings, "settings", EmptyPayload)]

\* A spread that drops the base: { ...over }.
spread_overOnly(base, over) ==
    [k \in SettingsKeys |-> IF over # NullSettings THEN over[k] ELSE Absent]

\* The object spread { ...base, ...over }: the keys of over win; spreading
\* null contributes no key.
spread(base, over) ==
    [k \in SettingsKeys |->
        IF over # NullSettings /\ over[k] # Absent THEN over[k]
        ELSE IF base = NullSettings THEN Absent
        ELSE base[k]]

\* updateSettings without the tail of its object literal.
preserved_none(row, current) == row

\* The tail of the object literal in updateSettings: the three identity
\* keys are set again from the current row.
preserved(row, current) ==
    [k \in SettingsKeys |-> IF k \in IdentityKeys THEN current[k] ELSE row[k]]

\* The environment is constructed without options.settings.
InitSettings ==
    /\ settings = construct(NullSettings)
    /\ settingsCall = NoSettingsCall

\* The environment is constructed with any options.settings.
InitAnySettings ==
    /\ settings \in {construct(row) : row \in SettingsRows}
    /\ settingsCall = NoSettingsCall

\* What a call on the manager leaves alone.
frameSettings == UNCHANGED <<streamVars, userVars, envVars, listenVars, simVars, routeVars>>

\* getSettings(): returns the row itself.
getSettings ==
    /\ settingsCall' = [op |-> "get", result |-> settings]
    /\ UNCHANGED settings

\* A variant of updateSettings without its test for null: it merges into
\* whatever there is.
updateSettings_upsert(updates) ==
    LET merged == spread(settings, updates)
    IN  /\ settings' = merged
        /\ settingsCall' = [op |-> "update", prior |-> settings,
                            arg |-> updates, result |-> <<merged>>]

\* updateSettings(updates): an empty array when there is no row, else the
\* merged row with its identity keys kept, in a one-element array.
updateSettings(updates) ==
    /\ IF settings = NullSettings
       THEN /\ settingsCall' = [op |-> "update", prior |-> settings,
                                arg |-> updates, result |-> <<>>]
            /\ UNCHANGED settings
       ELSE LET merged == preserved(spread(settings, updates), settings)
            IN  /\ settings' = merged
                /\ settingsCall' = [op |-> "update", prior |-> settings,
                                    arg |-> updates, result |-> <<merged>>]

\* insertSettings(newSettings): the spread of the row and the new settings,
\* stored and returned as it is.
insertSettings(newSettings) ==
    LET merged == spread(settings, newSettings)
    IN  /\ settings' = merged
        /\ settingsCall' = [op |-> "insert", prior |-> settings,
                            arg |-> newSettings, result |-> merged]

\* plugin.setSettings(settings): replaces the row, null included.
setSettings(row) ==
    /\ settings' = row
    /\ settingsCall' = [op |-> "set", arg |-> row]

\* ------------------------------------------------- plugin_settings routes

SettingsMethods == {"GET", "PATCH", "POST"}

\* createRouteKey(method, `${rimoriInfo.url}/rest/v1/plugin_settings`)
settingsKey(method) ==
    CASE method = "GET" -> "GET http://localhost:3500/rest/v1/plugin_settings"
      [] method = "PATCH" -> "PATCH http://localhost:3500/rest/v1/plugin_settings"
      [] method = "POST" -> "POST http://localhost:3500/rest/v1/plugin_settings"

\* JSON values, as JSON.stringify writes them: null, an array, an object
\* with the keys of the row that hold a value.
JsonNull == [kind |-> "null"]

JsonArray(items) == [kind |-> "array", items |-> items]

JsonObject(row) ==
    [kind |-> "object",
     fields |-> {<<k, row[k]>> : k \in {x \in SettingsKeys : row[x] # Absent}}]

\* JSON.stringify of a row or null.
rowJson(row) == IF row = NullSettings THEN JsonNull ELSE JsonObject(row)

\* JSON.stringify of what a call on the manager returned.
resultJson(call) ==
    CASE call.op = "get" -> rowJson(call.result)
      [] call.op = "insert" -> rowJson(call.result)
      [] call.op = "update" ->
            JsonArray([i \in 1 .. Len(call.result) |-> rowJson(call.result[i])])

\* The object identities of the three records setupSettingsRoutes creates.
defaultId(method) ==
    CASE method = "GET" -> 0 - 1
      [] method = "PATCH" -> 0 - 2
      [] method = "POST" -> 0 - 3

\* The record of a default handler: a function of the request, no options
\* but the method.
defaultRecord(method) ==
    [id |-> defaultId(method), matcher |-> NoMatcher, once |-> FALSE,
     error |-> NoError, value |-> "function", handler |-> method,
     payload |-> JsonNull]

\* setupSettingsRoutes(): the GET, PATCH and POST default handlers are pushed.
setupSettingsRoutes(table) ==
    pushRoute(pushRoute(pushRoute(table, settingsKey("GET"), defaultRecord("GET")),
                        settingsKey("PATCH"), defaultRecord("PATCH")),
              settingsKey("POST"), defaultRecord("POST"))

\* The options of an override: none, or a matcher that always matches.
OverrideOptions == [matcher : {NoMatcher, "any"}]

\* A row a test hands to an override.
OverrideRow == construct([NullSettings EXCEPT !["id"] = "other-id",
                                              !["plugin_id"] = Absent,
                                              !["guild_id"] = Absent,
                                              !["settings"] = "{theme}"])

\* addSupabaseRoute('plugin_settings', values, { ...options, method })
addSupabaseRoute(method, values, options) ==
    /\ nextId <= MaxMocks
    /\ routes' = pushRoute(routes, settingsKey(method),
                           [id |-> nextId, matcher |-> options.matcher, once |-> FALSE,
                            error |-> NoError, value |-> "static", handler |-> "none",
                            payload |-> values])
    /\ nextId' = nextId + 1
    /\ UNCHANGED <<req, simVars, extVars>>

\* plugin.mockGetSettings(settingsRow, options)
mockGetSettings(settingsRow, options) == addSupabaseRoute("GET", rowJson(settingsRow), options)

\* plugin.mockSetSettings(response, options)
mockSetSettings(response, options) == addSupabaseRoute("PATCH", response, options)

\* plugin.mockInsertSettings(response, options)
mockInsertSettings(response, options) == addSupabaseRoute("POST", response, options)

\* {}: the partial without a key.
EmptyPartial == [k \in SettingsKeys |-> Absent]

\* What request.postData() returns: nothing, text that JSON.parse rejects,
\* or the JSON text of a partial row.
SettingsBodies ==
    {[kind |-> "none", json |-> EmptyPartial],
     [kind |-> "garbage", json |-> EmptyPartial],
     [kind |-> "json", json |-> [EmptyPartial EXCEPT !["settings"] = "{theme}"]],
     [kind |-> "json", json |-> [EmptyPartial EXCEPT !["id"] = "other-id"]]}

\* The bodies of the override scenarios: no body, and a payload.
OverrideBodies == {b \in SettingsBodies : b.kind = "none" \/ b.json["settings"] # Absent}

\* The argument the PATCH and POST handlers pass on: the parsed body, or {}
\* when there is no body or parsing fails.
parsed(body) == IF body.kind = "json" THEN body.json ELSE EmptyPartial

\* The default handler of a method, called with the request.
settingsHandler(method, body) ==
    IF method = "GET" THEN getSettings
    ELSE IF method = "PATCH" THEN updateSettings(parsed(body))
    ELSE insertSettings(parsed(body))

\* What route.fulfill is given for a JSON value.
FulfillJson(json) == [type |-> "fulfill", code |-> "200", body |-> json]

\* handleRoute after the setTimeout, for a plugin_settings record: the value
\* function is called (it changes the row before its first await) or the
\* static value is taken, and the route is fulfilled with its JSON text.
afterDelaySettings(r) ==
    /\ req[r].pc = "delay"
    /\ LET mock == recordOf(r)
       IN  /\ routes' = [routes EXCEPT ![req[r].key] = removeOneTimeMock(mock, @)]
           /\ IF mock.value = "function"
                THEN /\ settingsHandler(mock.handler, req[r].body)
                     /\ req' = [req EXCEPT ![r].pc = "done",
                                           ![r].valueCalls = @ + 1,
                                           ![r].outcomes =
                                              Append(@, FulfillJson(resultJson(settingsCall')))]
                ELSE /\ UNCHANGED settingsVars
                     /\ req' = [req EXCEPT ![r].pc = "done",
                                           ![r].outcomes =
                                              Append(@, FulfillJson(mock.payload))]
    /\ UNCHANGED <<nextId, simVars, listenVars, streamVars, userVars, envVars>>

\* ---------------------------------------------- RimoriTestEnvironment.event

\* The stages of setup() and the event API.
EnvStages == {"new", "setup", "ready"}

EventApi ==
    {"mockEmit", "mockRequest", "on", "triggerSidebarAction",
     "triggerOnSidePanelAction", "triggerOnMainPanelAction"}

\* No usage error raised so far.
NoUsageError == "none"

\* The environment after setup() has completed.
InitEnv ==
    /\ envStage = "ready"
    /\ usageError = NoUsageError

\* The environment after its constructor.
InitEnvNew ==
    /\ envStage = "new"
    /\ usageError = NoUsageError

\* setup() up to its await of initialize(): the default plugin_settings
\* handlers are registered (the shared_content ones are on keys of their
\* own) and messageChannelSimulator is assigned the new simulator.
setupStarted ==
    /\ envStage = "new"
    /\ envStage' = "setup"
    /\ routes' = setupSettingsRoutes(routes)
    /\ UNCHANGED <<nextId, req, usageError, streamVars, userVars, settingsVars, listenVars, simVars>>

\* setup() after initialize(): it returns (its three no-op listeners are on
\* topics of their own).
setupCompleted ==
    /\ envStage = "setup"
    /\ envStage' = "ready"
    /\ UNCHANGED <<usageError, streamVars, userVars, settingsVars, listenVars, simVars, routeVars>>

\* A variant of the guard that never finds the simulator missing.
notInitialized_never(stage) == FALSE

\* if (!this.messageChannelSimulator)
notInitialized(stage) == stage = "new"

\* throw new Error('MessageChannelSimulator not initialized. Call setup() first.')
raise(api) ==
    /\ usageError' = api
    /\ UNCHANGED <<envStage, streamVars, userVars, settingsVars, listenVars, simVars, routeVars>>

\* event.mockEmit(topic, data, sender)
mockEmit ==
    IF notInitialized(envStage) THEN raise("mockEmit") ELSE emit

\* event.mockRequest(topic, response)
mockRequest(topic) ==
    IF notInitialized(envStage) THEN raise("mockRequest") ELSE respondOnce(topic)

\* event.on(topic, handler): the registered wrapper calls handler(event.data)
\* and returns at once.
eventOn(topic) ==
    IF notInitialized(envStage) THEN raise("on") ELSE on(topic, "noop")

\* event.triggerSidebarAction(payload)
triggerSidebarAction ==
    IF notInitialized(envStage) THEN raise("triggerSidebarAction") ELSE emit

\* event.triggerOnSidePanelAction(payload)
triggerOnSidePanelAction ==
    IF notInitialized(envStage)
      THEN raise("triggerOnSidePanelAction")
      ELSE onPanelAction(SidebarTopic)

\* event.triggerOnMainPanelAction(payload)
triggerOnMainPanelAction ==
    IF notInitialized(envStage)
      THEN raise("triggerOnMainPanelAction")
      ELSE onPanelAction(PanelTopic)

\* ------------------------------------------------------- response bodies

\* Characters a text can hold: a plain one and those JSON.stringify escapes.
Chars == {"a", "\"", "\n", "\\"}

\* The strings of up to MaxLen characters, as sequences of characters.
Texts == UNION {[1 .. n -> Chars] : n \in 0 .. MaxLen}

\* A resolved responseValue: a string, or an object with one string field.
Values == [kind : {"string", "object"}, text : Texts]

\* No route.fulfill call yet.
NoResponse == [status |-> 0, contentType |-> "none", body |-> <<>>]

\* JSON.stringify of one character inside a string literal.
escapeChar(c) ==
    CASE c = "\"" -> <<"\\", "\"">>
      [] c = "\n" -> <<"\\", "n">>
      [] c = "\\" -> <<"\\", "\\">>
      [] OTHER -> <<c>>

\* JSON.stringify of a string: the quoted, escaped characters.
RECURSIVE stringifyText(_)
stringifyText(text) ==
    IF Len(text) = 0
      THEN <<>>
      ELSE escapeChar(Head(text)) \o stringifyText(Tail(text))

quoted(text) == <<"\"">> \o stringifyText(text) \o <<"\"">>

\* JSON.stringify(responseValue)
stringify(value) ==
    IF value.kind = "string"
      THEN quoted(value.text)
      ELSE <<"{\"text\":">> \o quoted(value.text) \o <<"}">>

\* `data: ${payload}\n\n`
dataChunk(payload) == <<"data: ">> \o payload \o <<"\n", "\n">>

\* JSON.stringify({ type: 'text-delta', delta })
deltaPayload(delta) == <<"{\"type\":\"text-delta\",\"delta\":">> \o quoted(delta) \o <<"}">>

\* The for loop of formatAsSSE from index i on: one chunk per character.
RECURSIVE deltaChunks(_, _)
deltaChunks(text, i) ==
    IF i > Len(text)
      THEN <<>>
      ELSE dataChunk(deltaPayload(<<text[i]>>)) \o deltaChunks(text, i + 1)

\* A variant of formatAsSSE that sends the text in one text-delta event.
formatAsSSE_oneDelta(text) ==
    dataChunk(<<"{\"type\":\"start\"}">>)
    \o dataChunk(<<"{\"type\":\"text-start\",\"id\":\"1\"}">>)
    \o dataChunk(deltaPayload(text))
    \o dataChunk(<<"{\"type\":\"text-end\",\"id\":\"1\"}">>)
    \o dataChunk(<<"{\"type\":\"finish\"}">>)
    \o dataChunk(<<"[DONE]">>)

\* formatAsSSE(text): chunks.join('')
formatAsSSE(text) ==
    dataChunk(<<"{\"type\":\"start\"}">>)
    \o dataChunk(<<"{\"type\":\"text-start\",\"id\":\"1\"}">>)
    \o deltaChunks(text, 1)
    \o dataChunk(<<"{\"type\":\"text-end\",\"id\":\"1\"}">>)
    \o dataChunk(<<"{\"type\":\"finish\"}">>)
    \o dataChunk(<<"[DONE]">>)

\* A variant of the response in which isStreaming alone selects the
\* event-stream content type.
response_streamAnyValue(mock) ==
    IF mock.isStreaming
      THEN [status |-> 200, contentType |-> "text/event-stream",
            body |-> IF mock.value.kind = "string"
                       THEN formatAsSSE(mock.value.text)
                       ELSE stringify(mock.value)]
      ELSE [status |-> 200, contentType |-> "none", body |-> stringify(mock.value)]

\* What handleRoute fulfills with: the event stream for a streaming record
\* whose value is a string, else the regular JSON response.
response(mock) ==
    IF mock.isStreaming /\ mock.value.kind = "string"
      THEN [status |-> 200, contentType |-> "text/event-stream",
            body |-> formatAsSSE(mock.value.text)]
      ELSE [status |-> 200, contentType |-> "none", body |-> stringify(mock.value)]

\* The records and resolved values of the response scenarios.
StreamMocks == [isStreaming : BOOLEAN, value : Values]

\* No response scenario: a record that is not streaming, nothing fulfilled.
InitStream ==
    /\ streamMock = [isStreaming |-> FALSE, value |-> [kind |-> "string", text |-> <<>>]]
    /\ fulfilled = NoResponse

\* A response scenario: handleRoute has a winning record and its value.
InitStreamMocks ==
    /\ streamMock \in StreamMocks
    /\ fulfilled = NoResponse

\* handleRoute from the resolved value to route.fulfill.
fulfill ==
    /\ fulfilled = NoResponse
    /\ fulfilled' = response(streamMock)
    /\ UNCHANGED <<streamMock, userVars, settingsVars, listenVars, envVars, simVars, routeVars>>

\* ------------------------------------------------------------ specifications

\* Selection scenarios: registrations on the backend key (the supabase key has
\* no bucket), requests to both keys.
NextRoute ==
    \/ \E shape \in SelectShapes : addBackendRoute(shape)
    \/ \E r \in Requests, key \in RouteKeys, body \in Bodies : handleRoute(r, key, body)
    \/ \E r \in Requests : afterDelay(r)

\* Response scenarios.
NextOutcome ==
    \/ \E shape \in OutcomeShapes : addBackendRoute(shape)
    \/ \E r \in Requests, key \in RouteKeys, body \in OutcomeBodies : handleRoute(r, key, body)
    \/ \E r \in Requests : afterDelay(r)
    \/ \E r \in Requests : valueSettled(r)

\* Handshake scenarios: the plugin posts to its parent, the test emits.
NextSim ==
    \/ \E message \in ParentMessages : postMessage(message)
    \/ \E h \in Hellos : setupResumed(h)
    \/ \E h \in Hellos : flushNext(h)
    \/ emit

\* Responder scenarios: the test registers and removes responders, the plugin
\* sends events without an eventId, with eventId 0 and with its own eventId.
NextBus ==
    \/ \E topic \in Topics : respond(topic)
    \/ \E topic \in Topics : respondOnce(topic)
    \/ \E i \in ResponderIds : removeResponder(i)
    \/ \E e \in Events, topic \in Topics, payload \in EventPayloads :
         handlePortMessage(e, topic, payload)
    \/ \E e \in Events : maybeRespond(e)
    \/ \E e \in Events : sendResponse(e)

\* The events the plugin sends on the panel topic.
PanelPayloads == {[hasEventId |-> TRUE, eventId |-> 1]}

\* Panel scenarios after the handshake: the test triggers panel actions, the
\* plugin requests the action.
NextPanel ==
    \/ triggerOnMainPanelAction
    \/ \E e \in Events, payload \in PanelPayloads : handlePortMessage(e, PanelTopic, payload)
    \/ \E e \in Events : handlerResumed(e)
    \/ \E e \in Events : nextHandler(e)
    \/ \E e \in Events : maybeRespond(e)

\* Listener scenarios after the handshake: the test registers and removes
\* listeners, the plugin sends events on their topic.
NextListen ==
    \/ \E kind \in {"noop", "async"} : on(PanelTopic, kind)
    \/ \E id \in ListenerIds : off(id)
    \/ \E e \in Events, payload \in PanelPayloads : handlePortMessage(e, PanelTopic, payload)
    \/ \E e \in Events : handlerResumed(e)
    \/ \E e \in Events : nextHandler(e)
    \/ \E e \in Events : maybeRespond(e)

\* Request scenarios after the handshake: the test registers listeners on
\* the topic of the built-in responder, the plugin sends events on it with
\* and without an eventId.
NextRespond ==
    \/ \E kind \in {"noop", "async"} : on(BuiltinTopic, kind)
    \/ \E e \in Events, payload \in EventPayloads : handlePortMessage(e, BuiltinTopic, payload)
    \/ \E e \in Events : handlerResumed(e)
    \/ \E e \in Events : nextHandler(e)
    \/ \E e \in Events : maybeRespond(e)
    \/ \E e \in Events : sendResponse(e)

\* The record a registration without a matcher creates, with its identity.
bareRecord(id, once, value) ==
    [id |-> id, matcher |-> NoMatcher, once |-> once, error |-> NoError, value |-> value]

\* The buckets of the consumption scenarios: up to MaxOnce records registered
\* with once: true, then a persistent record, none with a matcher, each
\* with a static payload or a value function.
OnceBuckets ==
    UNION {{[i \in 1 .. (k + 1) |-> bareRecord(i, i <= k, values[i])] :
               values \in [1 .. (k + 1) -> {"static", "function"}]} :
           k \in 0 .. MaxOnce}

\* Consumption scenarios: the records are registered, then the requests are
\* made one after the other, each after the response to the one before.
NextOnce ==
    \/ \E r \in Requests, body \in Bodies :
          /\ \A q \in Requests : q < r => req[q].pc = "done"
          /\ handleRoute(r, BackendKey, body)
    \/ \E r \in Requests : afterDelay(r)
    \/ \E r \in Requests : valueSettled(r)

InitOnce ==
    /\ \E bucket \in OnceBuckets :
          /\ routes = (BackendKey :> bucket)
          /\ nextId = Len(bucket) + 1
    /\ req = [r \in Requests |-> IdleReq]
    /\ InitSim /\ InitListeners /\ InitStream /\ InitEnv /\ InitSettings

\* Exception scenarios after the handshake: listeners that return or throw
\* and responders that return or throw, on one topic.
NextThrow ==
    \/ \E kind \in {"noop", "throws"} : on(UserTopic, kind)
    \/ respond(UserTopic)
    \/ respondOnce(UserTopic)
    \/ \E e \in Events, payload \in PanelPayloads : handlePortMessage(e, UserTopic, payload)
    \/ \E e \in Events : nextHandler(e)
    \/ \E e \in Events : maybeRespond(e)
    \/ \E e \in Events : responderThrew(e)
    \/ \E e \in Events : sendResponse(e)

\* Registrations of the view scenarios: persistent records whose matchers
\* test the instructions field for one word.
ViewShapes ==
    [matcher : {"instructsLookup", "instructsExample"}, once : {FALSE},
     error : {NoError}, value : {"static"}]

\* View scenarios: requests whose bodies carry the instructions field, a
\* message list, both or neither.
NextView ==
    \/ \E shape \in ViewShapes : addBackendRoute(shape)
    \/ \E r \in Requests, body \in ViewBodies : handleRoute(r, BackendKey, body)
    \/ \E r \in Requests : afterDelay(r)

InitExt == InitListeners /\ InitStream /\ InitEnv /\ InitSettings

\* Setup scenarios: the test calls the event API before, during and after
\* setup().
NextEnv ==
    \/ setupStarted
    \/ setupCompleted
    \/ mockEmit
    \/ mockRequest(UserTopic)
    \/ eventOn(UserTopic)
    \/ triggerSidebarAction
    \/ triggerOnSidePanelAction
    \/ triggerOnMainPanelAction

InitSetup == InitRoutes /\ InitSim /\ InitListeners /\ InitStream /\ InitEnvNew /\ InitSettings

SpecEnv == InitSetup /\ [][NextEnv]_vars

\* Settings route scenarios: overrides registered before, during and after
\* setup(), requests of the three methods with and without a body.
NextOverride ==
    \/ setupStarted
    \/ setupCompleted
    \/ \E options \in OverrideOptions : mockGetSettings(NullSettings, options)
    \/ \E options \in OverrideOptions : mockSetSettings(JsonArray(<<>>), options)
    \/ \E options \in OverrideOptions : mockInsertSettings(JsonObject(OverrideRow), options)
    \/ \E r \in Requests, method \in SettingsMethods, body \in OverrideBodies :
          handleRoute(r, settingsKey(method), body)
    \/ \E r \in Requests : afterDelaySettings(r)

SpecOverride == InitSetup /\ [][NextOverride]_vars

\* Default handler scenarios: after setup(), without overrides, requests of
\* the three methods with every body, handled concurrently.
NextMerge ==
    \/ \E r \in Requests, method \in SettingsMethods, body \in SettingsBodies :
          handleRoute(r, settingsKey(method), body)
    \/ \E r \in Requests : afterDelaySettings(r)

InitMerge ==
    /\ routes = setupSettingsRoutes(<<>>)
    /\ nextId = 1
    /\ req = [r \in Requests |-> IdleReq]
    /\ InitSim /\ InitListeners /\ InitStream /\ InitEnv /\ InitSettings

SpecMerge == InitMerge /\ [][NextMerge]_vars

\* Resolution scenarios after setup: next to the plugin_settings buckets the
\* test registers backend records, the plugin makes backend requests that
\* may overlap, and each is resolved after its delay.
NextResolve ==
    \/ \E shape \in SelectShapes : addBackendRoute(shape)
    \/ \E r \in Requests, body \in Bodies : handleRoute(r, BackendKey, body)
    \/ \E r \in Requests : afterDelay(r)

SpecResolve == InitMerge /\ [][NextResolve]_vars

\* Response scenarios: every record and value, fulfilled once.
NextStream == fulfill

InitResponses ==
    InitRoutes /\ InitSim /\ InitListeners /\ InitStreamMocks /\ InitEnv /\ InitSettings

\* Settings scenarios: every initial row the options can carry, then any
\* sequence of reads, patches, inserts and manual replacements.
NextSettings ==
    \/ getSettings /\ frameSettings
    \/ \E updates \in PartialSettings : updateSettings(updates) /\ frameSettings
    \/ \E newSettings \in PartialSettings : insertSettings(newSettings) /\ frameSettings
    \/ \E row \in SettingsRows : setSettings(row) /\ frameSettings

InitManagers ==
    InitRoutes /\ InitSim /\ InitListeners /\ InitStream /\ InitEnv /\ InitAnySettings

SpecSettings == InitManagers /\ [][NextSettings]_vars

SpecStream == InitResponses /\ [][NextStream]_vars

Init == InitRoutes /\ InitSim /\ InitExt

SpecRoute == Init /\ [][NextRoute]_vars

SpecSim == Init /\ [][NextSim]_vars

\* The handshake scenarios in which every awaited page.evaluate returns.
FairSim ==
    /\ Init /\ [][NextSim]_vars
    /\ \A h \in Hellos : WF_vars(setupResumed(h)) /\ WF_vars(flushNext(h))

InitBus == InitRoutes /\ InitReady /\ InitExt

SpecListen == InitBus /\ [][NextListen]_vars

SpecPanel == InitBus /\ [][NextPanel]_vars

SpecView == Init /\ [][NextView]_vars

SpecThrow == InitBus /\ [][NextThrow]_vars

SpecOnce == InitOnce /\ [][NextOnce]_vars

SpecRespond == InitBus /\ [][NextRespond]_vars

SpecBus == InitBus /\ [][NextBus]_vars

\* Handshake scenarios with requests: the plugin says hello, the test emits
\* events, and the plugin, once it has a port, sends requests on the topic of
\* the built-in responder.
NextReady ==
    \/ \E message \in ParentMessages : postMessage(message)
    \/ \E h \in Hellos : setupResumed(h)
    \/ \E h \in Hellos : flushNext(h)
    \/ emit
    \/ \E e \in Events, payload \in PanelPayloads :
         handlePortMessage(e, BuiltinTopic, payload)
    \/ \E e \in Events : maybeRespond(e)
    \/ \E e \in Events : sendResponse(e)

SpecReady == Init /\ [][NextReady]_vars

\* Removal scenarios after the handshake: the test registers responders on
\* one topic, one after the other, and calls the functions respond /
\* respondOnce returned, any number of times; the plugin sends requests.
NextRemove ==
    \/ respond(UserTopic)
    \/ respondOnce(UserTopic)
    \/ \E i \in ClosureIds : removeResponder(i)
    \/ \E e \in Events, payload \in PanelPayloads : handlePortMessage(e, UserTopic, payload)
    \/ \E e \in Events : maybeRespond(e)
    \/ \E e \in Events : sendResponse(e)

InitRemove ==
    /\ InitRoutes
    /\ InitChannel
    /\ responders = [i \in ClosureIds |-> NoClosure]
    /\ InitExt

SpecRemove == InitRemove /\ [][NextRemove]_vars

\* The topics the unsubscribe scenarios register listeners on.
UnsubTopics == {UserTopic, PanelTopic}

\* Unsubscribe scenarios after the handshake: the test registers handler
\* functions on two topics, registers one of them again, calls the
\* functions on() returned, any number of times; the plugin sends events.
NextUnsub ==
    \/ \E topic \in UnsubTopics, kind \in {"noop", "async"} : on(topic, kind)
    \/ \E c \in ListenerIds : onAgain(c)
    \/ \E id \in ListenerIds : off(id)
    \/ \E e \in Events, topic \in UnsubTopics, payload \in PanelPayloads :
         handlePortMessage(e, topic, payload)
    \/ \E e \in Events : handlerResumed(e)
    \/ \E e \in Events : nextHandler(e)
    \/ \E e \in Events : maybeRespond(e)

SpecUnsub == InitBus /\ [][NextUnsub]_vars

\* Built-in responder scenarios after the handshake: the plugin requests the
\* session info and the profile, the test sets the profile, replaces a
\* built-in responder and removes its replacement.
NextBuiltin ==
    \/ \E userInfo \in UserInfos : setUserInfo(userInfo)
    \/ \E topic \in BuiltinTopics : respond(topic)
    \/ \E i \in ResponderIds : removeResponder(i)
    \/ \E e \in Events, topic \in BuiltinTopics, payload \in EventPayloads :
         handlePortMessage(e, topic, payload)
    \/ \E e \in Events : maybeRespond(e)
    \/ \E e \in Events : sendResponse(e)

SpecBuiltin == InitBus /\ [][NextBuiltin]_vars

SpecOutcome == Init /\ [][NextOutcome]_vars

\* Termination scenarios: the response scenarios over persistent records.
NextLive ==
    \/ \E shape \in PersistentShapes : addBackendRoute(shape)
    \/ \E r \in Requests, key \in RouteKeys, body \in OutcomeBodies : handleRoute(r, key, body)
    \/ \E r \in Requests : afterDelay(r)
    \/ \E r \in Requests : valueSettled(r)

\* Timers fire and value functions settle.
FairOutcome ==
    /\ Init /\ [][NextLive]_vars
    /\ \A r \in Requests : WF_vars(afterDelay(r)) /\ WF_vars(valueSettled(r))

\* ---------------------------------------------------------------- C1..C9
\* Properties of the mock resolution engine.

Arrived(r) == req[r].pc # "idle"

Done(r) == req[r].pc = "done"

\* The record at position i of a bucket has a matcher that returns true.
MatchesAt(mocks, i, body) ==
    /\ mocks[i].matcher # NoMatcher
    /\ matcher(mocks[i].matcher, body) = "true"

\* C1: handleRoute selects the earliest-registered record whose matcher
\* returns true for the request; of two records that would both match, the
\* earlier-registered one is the winner.
C1_FirstMatchWins ==
    \A r \in Requests :
      Arrived(r) =>
        \A i \in 1 .. Len(req[r].seen) :
          ( /\ MatchesAt(req[r].seen, i, req[r].body)
            /\ \A j \in 1 .. (i - 1) : ~MatchesAt(req[r].seen, j, req[r].body) )
          => req[r].mock = req[r].seen[i].id

\* A request found two records whose matchers both return true for it.
C1_Witness ==
    \E r \in Requests :
      /\ Arrived(r)
      /\ Len(req[r].seen) = 2
      /\ MatchesAt(req[r].seen, 1, req[r].body)
      /\ MatchesAt(req[r].seen, 2, req[r].body)
      /\ req[r].mock = req[r].seen[1].id

\* C2: a record registered with once: true is selected as the winner by at
\* most one request, also when a request arrives while an earlier request
\* that selected it is still waiting out its delay.
C2_OnceSelectedAtMostOnce ==
    \A r1, r2 \in Requests :
      ( /\ r1 # r2
        /\ req[r1].mock # NoMock
        /\ req[r1].mock = req[r2].mock )
      => ~recordOf(r1).once

\* C6: a matcher-less record is selected only when no matcher-bearing record
\* of the bucket matches the request, and then it is the first matcher-less
\* record in registration order; a matching matcher-bearing record wins also
\* when it was registered after the matcher-less record.
C6_FallbackOnlyWhenNoMatch ==
    \A r \in Requests :
      Arrived(r) =>
        LET s == req[r].seen
            anyMatch == \E i \in 1 .. Len(s) : MatchesAt(s, i, req[r].body)
        IN  /\ ( req[r].mock # NoMock /\ recordOf(r).matcher = NoMatcher )
               => /\ ~anyMatch
                  /\ \A i \in 1 .. Len(s) :
                       ( /\ s[i].matcher = NoMatcher
                         /\ \A j \in 1 .. (i - 1) : s[j].matcher # NoMatcher )
                       => req[r].mock = s[i].id
            /\ anyMatch => ( req[r].mock # NoMock /\ recordOf(r).matcher # NoMatcher )

\* One request fell back to the matcher-less record registered first although
\* a matcher-bearing record (not matching it) is in the bucket, and another
\* request was won by a matching record registered after the matcher-less one.
C6_Witness ==
    \E r1, r2 \in Requests :
      /\ Arrived(r1) /\ Arrived(r2)
      /\ Len(req[r1].seen) = 2
      /\ req[r1].seen[1].matcher = NoMatcher
      /\ req[r1].seen[2].matcher # NoMatcher
      /\ req[r1].mock = req[r1].seen[1].id
      /\ Len(req[r2].seen) = 2
      /\ req[r2].seen[1].matcher = NoMatcher
      /\ req[r2].mock = req[r2].seen[2].id

\* The scenario of C7: one record was registered in the whole run, on this
\* key, with once: true (no fallback, no other record).
SoleOnceRecord(key) ==
    /\ nextId = 2
    /\ key \in DOMAIN routes
    /\ \A r \in Requests : Arrived(r) /\ req[r].key = key =>
         \A i \in 1 .. Len(req[r].seen) : req[r].seen[i].once

\* The request's body is one the record accepts.
Usable(mock, body) ==
    mock.matcher = NoMatcher \/ matcher(mock.matcher, body) = "true"

\* The requests of a sequential run: the first one finds the record, each
\* later one arrives after the record was consumed and finds the bucket empty.
FirstOfRun(r, key) ==
    /\ Done(r) /\ req[r].key = key
    /\ Len(req[r].seen) = 1
    /\ Usable(req[r].seen[1], req[r].body)

LaterOfRun(r, key) ==
    /\ Done(r) /\ req[r].key = key
    /\ req[r].hadBucket /\ req[r].seen = <<>>

\* C7 as stated: of N sequential identical requests against a bucket holding
\* exactly one record, registered with once: true, the first is fulfilled and
\* each later one resolves as the "no matching mock" failure (the abort with
\* not_found).
C7_LaterRequestsNoMatchingMock ==
    \A key \in RouteKeys :
      SoleOnceRecord(key) =>
        \A r \in Requests :
          /\ FirstOfRun(r, key) => req[r].outcomes = <<Fulfill>>
          /\ LaterOfRun(r, key) => req[r].outcomes = <<Abort("not_found")>>

\* C7 as the code has it: the first request is fulfilled and each later one
\* ends in the raised error "No route handler found", because the consumed
\* record leaves the bucket empty.
C7_LaterRequestsNoRouteHandler ==
    \A key \in RouteKeys :
      SoleOnceRecord(key) =>
        \A r \in Requests :
          /\ FirstOfRun(r, key) => req[r].outcomes = <<Fulfill>>
          /\ LaterOfRun(r, key) =>
               req[r].outcomes = <<Throw("No route handler found")>>

\* A sequential run of two identical requests over the sole once record.
C7_Witness ==
    \E key \in RouteKeys : \E r1, r2 \in Requests :
      /\ SoleOnceRecord(key)
      /\ FirstOfRun(r1, key) /\ LaterOfRun(r2, key)
      /\ req[r1].body = req[r2].body
      /\ \A r \in Requests : Done(r)
      /\ Cardinality({r \in Requests : req[r].seen # <<>>}) = 1

\* C8: a request whose route key has no bucket, or whose bucket is empty, ends
\* in a raised error ("No route handler found"): it is neither fulfilled nor
\* aborted, and no matcher or value function is invoked.
C8_NoHandlerRaises ==
    \A r \in Requests :
      ( Arrived(r) /\ (~req[r].hadBucket \/ req[r].seen = <<>>) )
      => /\ Done(r)
         /\ req[r].outcomes = <<Throw("No route handler found")>>
         /\ req[r].matcherCalls = <<>>
         /\ req[r].valueCalls = 0

\* A request went to a bucket that a consumed once record had left empty, after
\* the request that consumed the record through its value function.
C8_Witness ==
    \E r1, r2 \in Requests :
      /\ Done(r1) /\ req[r1].valueCalls = 1
      /\ Done(r2) /\ req[r2].hadBucket /\ req[r2].seen = <<>>

\* C9: every intercepted request whose matchers and value function terminate
\* eventually receives exactly one outcome (one fulfill, one abort or one
\* raised error) and never more than one.
C9_ExactlyOneOutcome ==
    /\ [](\A r \in Requests : Len(req[r].outcomes) <= 1)
    /\ \A r \in Requests :
         Arrived(r) ~> (Done(r) /\ Len(req[r].outcomes) = 1)

\* The outcomes of one state: a request fulfilled from its value function and
\* a request aborted, each with one outcome.
C9_Witness ==
    \E r1, r2 \in Requests :
      /\ Done(r1) /\ req[r1].valueCalls = 1 /\ req[r1].outcomes = <<Fulfill>>
      /\ Done(r2) /\ Len(req[r2].outcomes) = 1 /\ req[r2].outcomes[1].type = "abort"

\* The emitted event messages the plugin has received so far, in order.
Delivered == SelectSeq(toPlugin, LAMBDA m : m.type = "event")

\* C3: the messages emit() queued while the simulator was not Ready reach the
\* plugin in the order of their emit() calls, and none of them arrives after
\* a message whose emit() was issued after readiness.
C3_QueuedDeliveredFirstInOrder ==
    \A i, j \in 1 .. Len(Delivered) :
        i < j =>
            /\ ~(Delivered[j].queued /\ ~Delivered[i].queued)
            /\ (Delivered[i].queued /\ Delivered[j].queued
                    => Delivered[i].n < Delivered[j].n)

\* The events whose maybeRespond produced data from closure i.
InvokedBy(i) ==
    {e \in Events : events[e].data.kind \in {"respond", "respondOnce"}
                    /\ events[e].data.id = i}

\* The event's maybeRespond has looked its topic up.
LookedUp(e) == events[e].pc \in {"send", "done"}

\* The responder was registered by respond or respondOnce.
Registered(responder) == responder.kind \in {"respond", "respondOnce"}

\* C4: every inbound event that carries an eventId and finds a respond or
\* respondOnce responder registered for its topic has that responder invoked
\* and, once handled, its response sent; a respondOnce responder is invoked for at most one event.
C4_RespondersAnswerEveryRequest ==
    /\ \A e \in Events :
          LookedUp(e) /\ events[e].hasEventId /\ Registered(events[e].found)
              => events[e].data = events[e].found
    /\ \A e \in Events :
          events[e].pc = "done" /\ events[e].hasEventId /\ Registered(events[e].found)
              => \E k \in 1 .. Len(toPlugin) :
                    toPlugin[k] = ResponseMessage(events[e].eventId, events[e].topic,
                                                  events[e].found)
    /\ \A i \in ResponderIds :
          responders[i].kind = "respondOnce" => Cardinality(InvokedBy(i)) <= 1

\* C5: rimori:init is dispatched, and a message channel built, at most once,
\* whatever the number and timing of the plugin's hellos.
C5_InitDispatchedOnce == inits <= 1

\* The message is a hello or an acknowledged of the configured plugin.
Handshake(message) ==
    /\ message.type \in {"rimori:hello", "rimori:acknowledged"}
    /\ message.pluginId = PluginId

\* C10: Ready is entered only after a hello with the configured pluginId, each
\* such hello and nothing else starts setupMessageChannel; a matching hello or
\* acknowledged is not forwarded, every other message is forwarded unchanged.
C10_ReadyOnlyByMatchingHello ==
    /\ isReady => helloCount > 0
    /\ Cardinality({h \in Hellos : setup[h].pc # "idle"}) = helloCount
    /\ inits <= helloCount
    /\ lastPost # NoMessage =>
          lastForward = IF Handshake(lastPost) THEN NoMessage ELSE lastPost

\* Ready after a matching hello, and the last message, a hello of another
\* plugin, was forwarded.
C10_Witness ==
    /\ isReady
    /\ helloCount = 1
    /\ lastPost = [type |-> "rimori:hello", pluginId |-> OtherPluginId]
    /\ lastForward = lastPost


\* The positions of toPlugin that carry the payload of panel handler id.
PanelDeliveries(id) == {k \in 1 .. Len(toPlugin) : toPlugin[k] = PanelMessage(id)}

\* C11: the payload of one triggerOnMainPanelAction call is sent to the plugin
\* at most once, however many events the plugin sends on the request topic.
C11_PanelPayloadSentOnce ==
    \A id \in ListenerIds : Cardinality(PanelDeliveries(id)) <= 1


\* The winning record of the request has options.error set.
ErrorWins(r) == req[r].mock # NoMock /\ recordOf(r).error # NoError

\* C12: a request whose winning record has options.error set is aborted with
\* exactly that error category: it is never fulfilled, nothing else is
\* produced, and the record's value function is not invoked.
C12_ErrorRecordAborts ==
    \A r \in Requests :
      ErrorWins(r) =>
        /\ req[r].valueCalls = 0
        /\ \A k \in 1 .. Len(req[r].outcomes) :
               req[r].outcomes[k] = Abort(recordOf(r).error)
        /\ Done(r) => req[r].outcomes = <<Abort(recordOf(r).error)>>

\* A request was answered from a record with options.error and a value function.
C12_Witness ==
    \E r \in Requests :
      /\ Done(r) /\ ErrorWins(r)
      /\ recordOf(r).value = "function"
      /\ req[r].outcomes = <<Abort("timedout")>>


\* The record at position i of a bucket has a matcher that throws.
ThrowsAt(mocks, i, body) ==
    /\ mocks[i].matcher # NoMatcher
    /\ matcher(mocks[i].matcher, body) = "throws"

\* The scan reaches position i: no earlier record's matcher returns true.
Reached(mocks, i, body) == \A j \in 1 .. (i - 1) : ~MatchesAt(mocks, j, body)

\* The ids in a sequence of matcher calls.
Called(r) == {req[r].matcherCalls[k] : k \in 1 .. Len(req[r].matcherCalls)}

\* C13: when a matcher the scan reaches throws, the scan goes on: the matchers
\* of the later records it reaches are still called, a later matching record
\* wins, else the first matcher-less record wins, and handleRoute does not
\* end in the exception.
C13_ThrowingMatcherIsNoMatch ==
    \A r \in Requests :
      Arrived(r) =>
        LET s == req[r].seen
            b == req[r].body
        IN  \A i \in 1 .. Len(s) :
              ( ThrowsAt(s, i, b) /\ Reached(s, i, b) ) =>
                /\ s[i].id \in Called(r)
                /\ \A j \in (i + 1) .. Len(s) :
                     ( s[j].matcher # NoMatcher /\ Reached(s, j, b) )
                       => s[j].id \in Called(r)
                /\ \A j \in 1 .. Len(s) :
                     ( MatchesAt(s, j, b) /\ Reached(s, j, b) ) => req[r].mock = s[j].id
                /\ \A j \in 1 .. Len(s) :
                     ( /\ \A k \in 1 .. Len(s) : ~MatchesAt(s, k, b)
                       /\ s[j].matcher = NoMatcher
                       /\ \A k \in 1 .. (j - 1) : s[k].matcher # NoMatcher )
                       => req[r].mock = s[j].id
                /\ \A k \in 1 .. Len(req[r].outcomes) : req[r].outcomes[k].type # "throw"

\* A request was answered from a matching record registered after a record
\* whose matcher threw for it.
C13_Witness ==
    \E r \in Requests :
      /\ Done(r) /\ Len(req[r].seen) = 2
      /\ ThrowsAt(req[r].seen, 1, req[r].body)
      /\ MatchesAt(req[r].seen, 2, req[r].body)
      /\ req[r].mock = req[r].seen[2].id
      /\ req[r].matcherCalls = <<req[r].seen[1].id, req[r].seen[2].id>>
      /\ req[r].outcomes = <<Fulfill>>


\* The request found a non-empty bucket in which no matcher returns true for
\* it and every record has a matcher.
NoWinner(r) ==
    /\ Arrived(r)
    /\ req[r].seen # <<>>
    /\ \A i \in 1 .. Len(req[r].seen) :
         req[r].seen[i].matcher # NoMatcher /\ ~MatchesAt(req[r].seen, i, req[r].body)

\* C14: a request that finds a non-empty bucket without a matching record and
\* without a matcher-less record is aborted with not_found; no value function
\* is invoked for it, and its handling leaves the route table as it was.
C14_UnmatchedAbortsNotFound ==
    /\ [](\A r \in Requests :
            NoWinner(r) =>
              /\ Done(r)
              /\ req[r].mock = NoMock
              /\ req[r].outcomes = <<Abort("not_found")>>
              /\ req[r].valueCalls = 0)
    /\ [][\A r \in Requests : (~Arrived(r) /\ NoWinner(r)') => routes' = routes]_vars

\* A request was aborted for want of a match in a bucket whose only record
\* has a value function.
C14_Witness ==
    \E r \in Requests :
      /\ NoWinner(r) /\ Done(r)
      /\ Len(req[r].seen) = 1
      /\ req[r].seen[1].value = "function"
      /\ req[r].key \in DOMAIN routes
      /\ routes[req[r].key] = req[r].seen


\* The data events of an event-stream body: the tokens between the blank
\* lines; tokens after the last blank line count as one more event.
RECURSIVE splitEvents(_, _)
splitEvents(tokens, current) ==
    IF Len(tokens) = 0
      THEN IF Len(current) = 0 THEN <<>> ELSE <<current>>
    ELSE IF Len(tokens) >= 2 /\ tokens[1] = "\n" /\ tokens[2] = "\n"
      THEN <<current>> \o splitEvents(SubSeq(tokens, 3, Len(tokens)), <<>>)
    ELSE splitEvents(Tail(tokens), Append(current, Head(tokens)))

\* The characters a JSON string literal's content stands for.
RECURSIVE unescape(_)
unescape(tokens) ==
    IF Len(tokens) = 0
      THEN <<>>
    ELSE IF tokens[1] = "\\" /\ Len(tokens) >= 2
      THEN <<IF tokens[2] = "n" THEN "\n" ELSE tokens[2]>>
           \o unescape(SubSeq(tokens, 3, Len(tokens)))
    ELSE <<tokens[1]>> \o unescape(Tail(tokens))

\* The event is a text-delta event whose delta is the character c.
IsDelta(event, c) ==
    /\ Len(event) >= 5
    /\ event[1] = "data: "
    /\ event[2] = "{\"type\":\"text-delta\",\"delta\":"
    /\ event[3] = "\""
    /\ event[Len(event) - 1] = "\""
    /\ event[Len(event)] = "}"
    /\ unescape(SubSeq(event, 4, Len(event) - 2)) = <<c>>

\* handleRoute has fulfilled for a streaming record with a value of this kind.
Streamed(kind) ==
    /\ fulfilled # NoResponse
    /\ streamMock.isStreaming
    /\ streamMock.value.kind = kind

\* C15: for a streaming record whose value is a string of K characters the
\* body is, in this order, start, text-start, K text-delta events carrying the
\* characters in order, text-end, finish and [DONE]: K + 5 data events, with
\* an event-stream content type and status 200.
C15_StreamedTextEvents ==
    Streamed("string") =>
      LET text == streamMock.value.text
          K == Len(text)
          ev == splitEvents(fulfilled.body, <<>>)
      IN  /\ fulfilled.status = 200
          /\ fulfilled.contentType = "text/event-stream"
          /\ Len(ev) = K + 5
          /\ ev[1] = <<"data: ", "{\"type\":\"start\"}">>
          /\ ev[2] = <<"data: ", "{\"type\":\"text-start\",\"id\":\"1\"}">>
          /\ \A i \in 1 .. K : IsDelta(ev[2 + i], text[i])
          /\ ev[K + 3] = <<"data: ", "{\"type\":\"text-end\",\"id\":\"1\"}">>
          /\ ev[K + 4] = <<"data: ", "{\"type\":\"finish\"}">>
          /\ ev[K + 5] = <<"data: ", "[DONE]">>

\* A streaming record with a text of two line feeds and a quote was fulfilled.
C15_Witness ==
    /\ Streamed("string")
    /\ streamMock.value.text = <<"\n", "\n", "\"">>
    /\ Len(splitEvents(fulfilled.body, <<>>)) = 8

Tokens(body) == {body[k] : k \in 1 .. Len(body)}

ResponderRefs ==
    {NoResponder, BuiltinResponder}
    \cup [kind : {"respond", "respondOnce"}, id : ResponderIds]

\* The closures respond / respondOnce created for the topic so far.
CreatedFor(topic) ==
    {i \in ResponderIds : responders[i].kind # "none" /\ responders[i].topic = topic}

\* The latest registration for the topic: the closure created last, or the
\* built-in responder of the constructor when the test registered none.
LatestFor(topic) ==
    IF CreatedFor(topic) # {}
      THEN LET i == CHOOSE i \in CreatedFor(topic) : \A j \in CreatedFor(topic) : j <= i
           IN  [kind |-> responders[i].kind, id |-> i]
    ELSE IF topic = BuiltinTopic THEN BuiltinResponder
    ELSE NoResponder

\* C17: every topic has at most one auto-responder entry, and an inbound
\* request that is answered is answered by the latest registration for its
\* topic: a registration replaces whatever the topic had before.
C17_LatestRegistrationAnswers ==
    /\ [](autoResponders \in [AllTopics -> ResponderRefs])
    /\ [][\A e \in Events :
            (events[e].pc = "respond" /\ events'[e].pc = "send")
              => responderOf(events'[e].data) = LatestFor(events[e].topic)]_vars

\* A request on the topic of a built-in responder was answered by the
\* responder the test registered for that topic afterwards.
C17_Witness ==
    \E e \in Events :
      /\ events[e].pc = "done"
      /\ events[e].topic = BuiltinTopic
      /\ events[e].data.kind = "respond"
      /\ \E k \in 1 .. Len(toPlugin) :
           toPlugin[k] = ResponseMessage(events[e].eventId, BuiltinTopic, events[e].data)


\* In this step the dispatch loop of event e calls a listener.
Starts(e) == dispatch'[e].last # dispatch[e].last

\* C18: the dispatch loop of an event calls a listener only when the listener
\* it called before has completed, asynchronous part included, and the one
\* it calls is the earliest-registered listener of the topic it has not
\* called yet: the listeners run in registration order, one at a time.
C18_ListenersSequentialInOrder ==
    [][\A e \in Events :
         Starts(e) =>
           /\ ~dispatch[e].running
           /\ dispatch'[e].last > dispatch[e].last
           /\ \E k \in 1 .. Len(listeners) :
                /\ listeners[k].id = dispatch'[e].last
                /\ listeners[k].topic = events'[e].topic
           /\ \A k \in 1 .. Len(listeners) :
                ( listeners[k].topic = events'[e].topic
                  /\ listeners[k].id > dispatch[e].last )
                  => listeners[k].id >= dispatch'[e].last]_vars

\* An event went through two registered listeners with asynchronous parts,
\* the second called after the first, and both have completed.
C18_Witness ==
    \E e \in Events :
      /\ events[e].pc \in {"respond", "done"}
      /\ Len(listeners) = 2
      /\ listeners[1].id = 1 /\ listeners[1].kind = "async"
      /\ listeners[2].id = 2 /\ listeners[2].kind = "async"
      /\ dispatch[e].last = 2
      /\ ~dispatch[e].running


\* Nothing was queued for the plugin and no listener or responder registered
\* through the event API.
NothingRegistered ==
    /\ emitted = 0
    /\ pendingOutbound = <<>>
    /\ listeners = <<>>
    /\ \A i \in ResponderIds : responders[i].kind = "none"

\* C19 as stated: as long as setup() has not completed, the calls of the
\* event API register and queue nothing.
C19_NothingBeforeSetupCompleted == envStage # "ready" => NothingRegistered

\* C19: as long as setup() has not been called, every call of the event API
\* raises the usage error and registers and queues nothing; once setup() has
\* created the simulator, no call raises the usage error, whether setup() has
\* completed or not.
C19_UsageErrorBeforeSetupCalled ==
    /\ [](envStage = "new" => NothingRegistered)
    /\ [][(envStage = "new" /\ envStage' = "new")
            => /\ usageError' \in EventApi
               /\ UNCHANGED <<simVars, listenVars>>]_vars
    /\ [][envStage # "new" => usageError' = usageError]_vars

\* Before setup() was called a call of triggerOnMainPanelAction raised the
\* usage error.
C19_Witness ==
    /\ envStage = "new"
    /\ usageError = "triggerOnMainPanelAction"
    /\ NothingRegistered


\* A get() that follows an insert() directly.
GetAfterInsert == settingsCall.op = "insert" /\ settingsCall'.op = "get"

\* C20: insert(partial) followed by get() returns a non-null record, the
\* one insert returned directly, whose fields are the prior state's fields
\* overridden by every key present in partial, with the identity fields id,
\* plugin_id and guild_id unchanged from the prior state.
C20_InsertMergeKeepsIdentity ==
    [][GetAfterInsert =>
          LET prior == settingsCall.prior
              partial == settingsCall.arg
              got == settingsCall'.result
          IN  /\ got # NullSettings
              /\ got = settingsCall.result
              /\ \A k \in SettingsKeys :
                    got[k] = IF k \in IdentityKeys THEN prior[k]
                             ELSE spread(prior, partial)[k]]_vars

\* The same law for the inserts whose argument carries no identity key: the
\* only inserts for which the code satisfies it.
C20_InsertMergeWithoutIdentityKeys ==
    [][(GetAfterInsert /\ \A k \in IdentityKeys : settingsCall.arg[k] = Absent) =>
          LET prior == settingsCall.prior
              got == settingsCall'.result
          IN  /\ got # NullSettings
              /\ got = settingsCall.result
              /\ \A k \in SettingsKeys :
                    got[k] = IF k \in IdentityKeys /\ prior # NullSettings THEN prior[k]
                             ELSE spread(prior, settingsCall.arg)[k]]_vars

\* An insert carrying another id was made on a constructed row.
C20_Witness ==
    /\ settingsCall.op = "insert"
    /\ settingsCall.prior = construct(NullSettings)
    /\ settingsCall.arg["id"] = "other-id"
    /\ settings["id"] = "other-id"


\* The value of a key after a merge of partial into prior.
Overridden(prior, partial, k) == IF partial[k] # Absent THEN partial[k] ELSE prior[k]

\* C21: update(partial) on an absent settings state returns an empty
\* collection and leaves the state absent; on a present state it returns a
\* one-element collection whose sole element is the new state: the prior
\* state overridden by partial, except that id, plugin_id and guild_id keep
\* their prior values even when partial contains them.
C21_UpdateMergeKeepsIdentity ==
    settingsCall.op = "update" =>
        LET prior == settingsCall.prior
            partial == settingsCall.arg
            result == settingsCall.result
        IN  IF prior = NullSettings
            THEN result = <<>> /\ settings = NullSettings
            ELSE /\ Len(result) = 1
                 /\ result[1] = settings
                 /\ \A k \in SettingsKeys :
                       settings[k] = IF k \in IdentityKeys THEN prior[k]
                                     ELSE Overridden(prior, partial, k)

\* A present row was patched with another id and another payload.
C21_Witness ==
    /\ settingsCall.op = "update"
    /\ settingsCall.prior = construct(NullSettings)
    /\ settingsCall.arg["id"] = "other-id"
    /\ settingsCall.arg["settings"] = "{theme}"
    /\ settings["settings"] = "{theme}"


\* The bucket the request found holds an override (a record a mock method
\* registered).
SawOverride(r) == \E i \in 1 .. Len(req[r].seen) : req[r].seen[i].value = "static"

\* The record that answers the request is an override.
OverrideWon(r) == req[r].mock # NoMock /\ recordOf(r).value = "static"

\* C22: an override registered through plugin.mockGetSettings,
\* mockSetSettings or mockInsertSettings is the record that answers the
\* later plugin_settings requests of its method in place of the default
\* handler, with any body, whether it was registered before or after setup().
C22_OverrideAnswersInPlaceOfDefault ==
    \A r \in Requests :
        (req[r].pc \in {"delay", "done"} /\ SawOverride(r)) =>
            /\ OverrideWon(r)
            /\ req[r].pc = "done" => req[r].outcomes = <<FulfillJson(recordOf(r).payload)>>


\* The request was answered, and no request that writes the row (PATCH,
\* POST) was answered so far.
AnsweredBeforeAnyWrite(r, method) ==
    /\ req[r].pc = "done"
    /\ req[r].key = settingsKey(method)
    /\ \A q \in Requests :
          req[q].pc = "done" => req[q].key \notin {settingsKey("PATCH"), settingsKey("POST")}

\* The PATCH request was answered, and no POST request was answered so far.
PatchedBeforeAnyInsert(r) ==
    /\ req[r].pc = "done"
    /\ req[r].key = settingsKey("PATCH")
    /\ \A q \in Requests : req[q].pc = "done" => req[q].key # settingsKey("POST")

\* C23: with no settings passed to the constructor and no overrides, the
\* settings state starts absent: until a POST inserts a row the default
\* handlers answer GET plugin_settings with null and PATCH plugin_settings
\* with [].
C23_DefaultsStartAbsent ==
    \A r \in Requests :
        /\ AnsweredBeforeAnyWrite(r, "GET") => req[r].outcomes = <<FulfillJson(JsonNull)>>
        /\ PatchedBeforeAnyInsert(r) => req[r].outcomes = <<FulfillJson(JsonArray(<<>>))>>

ResponsesFor(eventId, topic) ==
    {k \in 1 .. Len(toPlugin) :
        /\ toPlugin[k].type = "response"
        /\ toPlugin[k].eventId = eventId
        /\ toPlugin[k].topic = topic}

\* The handled events that carried this eventId on a topic whose responder
\* was there when the listeners had completed.
RequestsHandled(eventId, topic) ==
    {e \in Events :
        /\ events[e].pc = "done"
        /\ events[e].hasEventId
        /\ events[e].eventId = eventId
        /\ events[e].topic = topic
        /\ events[e].found # NoResponder}

\* C25: for an inbound event carrying an eventId on a topic that has an
\* auto-responder, the listeners of the topic have completed before the
\* responder is invoked, the responder is invoked also when the topic has no
\* listener, and exactly one response is sent for the event, carrying its
\* eventId and its topic.
C25_OneCorrelatedResponseAfterListeners ==
    /\ \A e \in Events :
          events[e].pc \in {"respond", "send", "done"} => ~dispatch[e].running
    /\ \A e \in Events :
          (events[e].pc \in {"send", "done"} /\ events[e].hasEventId
             /\ events[e].found # NoResponder)
              => responderOf(events[e].data) = events[e].found
    /\ \A eventId \in EventIds :
          Cardinality(ResponsesFor(eventId, BuiltinTopic))
              = Cardinality(RequestsHandled(eventId, BuiltinTopic))


\* The bucket as registered: what the first request found.
Registered0 == req[1].seen

\* The number of records registered with once: true.
OnceCount == Cardinality({i \in 1 .. Len(Registered0) : Registered0[i].once})

\* C26: with matcher-less records r1..rk registered with once: true and
\* then a persistent matcher-less record p on one route key, sequential
\* requests resolve to r1, r2, ..., rk in this order and every later request
\* to p; a selected once record is no longer in its bucket when its response
\* value is computed.
C26_OnceConsumedInOrder ==
    \A r \in Requests :
        /\ req[r].pc # "idle" =>
              req[r].mock = Registered0[IF r <= OnceCount THEN r ELSE OnceCount + 1].id
        /\ (req[r].pc \in {"value", "done"} /\ recordOf(r).once) =>
              indexOf(routes[BackendKey], req[r].mock) = 0

\* Two once records and a persistent one: the second request was answered
\* from the second once record, by its value function, and only the
\* persistent record is left.
C26_Witness ==
    /\ req[2].pc = "done"
    /\ Len(Registered0) = 3
    /\ req[1].mock = 1 /\ req[2].mock = 2
    /\ req[2].valueCalls = 1
    /\ Len(routes[BackendKey]) = 1


\* The message emit() number n queued.
QueuedMessage(n) == EventMessage(n, TRUE)

\* The sends of a message to the plugin so far.
Sends(message) == {k \in 1 .. Len(toPlugin) : toPlugin[k] = message}

\* emit() number n found the simulator not Ready.
WasQueued(n) ==
    \/ \E k \in 1 .. Len(pendingOutbound) : pendingOutbound[k] = QueuedMessage(n)
    \/ \E h \in Hellos :
          \E k \in 1 .. Len(setup[h].batch) : setup[h].batch[k] = QueuedMessage(n)
    \/ Sends(QueuedMessage(n)) # {}

\* C27: after the Ready transition every message that was in the
\* pending-outbound queue is eventually sent to the plugin, exactly once and
\* in a send of its own, and the queue is empty, also when the plugin's
\* hello is observed more than once.
C27_QueueFlushedExactlyOnce ==
    /\ [](\A n \in 1 .. MaxEmits : Cardinality(Sends(QueuedMessage(n))) <= 1)
    /\ [](isReady => pendingOutbound = <<>>)
    /\ [][Len(toPlugin') <= Len(toPlugin) + 1]_vars
    /\ \A n \in 1 .. MaxEmits :
          (isReady /\ WasQueued(n)) ~>
              (Cardinality(Sends(QueuedMessage(n))) = 1
                 /\ \A h \in Hellos : setup[h].pc # "flush")

\* Two hellos were observed, both built a channel, and the two queued
\* messages have been sent.
C27_Witness ==
    /\ isReady
    /\ helloCount >= 2
    /\ inits >= 2
    /\ \A h \in Hellos : setup[h].pc \in {"idle", "done"}
    /\ Cardinality(Sends(QueuedMessage(1))) = 1
    /\ Cardinality(Sends(QueuedMessage(2))) = 1


\* The method of an answered plugin_settings request.
MethodOf(r) == CHOOSE method \in SettingsMethods : req[r].key = settingsKey(method)

\* The row after one request applied alone to a row: a GET and a PATCH of
\* an absent row leave it, a PATCH merges and keeps the identity fields, a
\* POST merges.
AppliedAlone(row, r) ==
    LET partial == IF req[r].body.kind = "json" THEN req[r].body.json ELSE EmptyPartial
        base == IF row = NullSettings THEN EmptyPartial ELSE row
    IN  IF MethodOf(r) = "GET" \/ (MethodOf(r) = "PATCH" /\ row = NullSettings)
          THEN row
          ELSE [k \in SettingsKeys |->
                  IF MethodOf(r) = "PATCH" /\ k \in IdentityKeys
                    THEN base[k]
                    ELSE Overridden(base, partial, k)]

\* The requests of an order applied one at a time, from position i on.
RECURSIVE Serial(_, _, _)
Serial(order, i, row) ==
    IF i > Len(order) THEN row ELSE Serial(order, i + 1, AppliedAlone(row, order[i]))

\* The orders in which a set of requests can be applied one at a time.
Orders(D) ==
    {order \in [1 .. Cardinality(D) -> D] :
        \A i, j \in 1 .. Cardinality(D) : order[i] = order[j] => i = j}

\* C28: for every interleaving of concurrently handled PATCH and POST
\* plugin_settings requests, whatever their delays, the settings record is
\* the result of applying the updates of the answered requests one at a
\* time in some serial order: every merge is atomic and no update is lost.
C28_MergesSerializable ==
    LET D == {r \in Requests : req[r].pc = "done"}
    IN  \E order \in Orders(D) : settings = Serial(order, 1, construct(NullSettings))

\* A POST and a PATCH with different bodies were handled concurrently: the
\* POST arrived first and its merge was applied last.
C28_Witness ==
    /\ req[1].pc = "done" /\ req[1].key = settingsKey("POST")
    /\ req[2].pc = "done" /\ req[2].key = settingsKey("PATCH")
    /\ req[1].body.json["id"] = "other-id"
    /\ req[2].body.json["settings"] = "{theme}"
    /\ settingsCall.op = "insert"
    /\ settings["id"] = "other-id" /\ settings["settings"] = "{theme}"


\* handlePortMessage of the event ended with an exception.
Rejected(e) == events[e].pc = "rejected"

\* The last listener the dispatch loop of the event called threw.
ListenerThrew(e) == dispatch[e].kind = "throws"

\* C29: an exception thrown by an auto-responder while an inbound event is
\* handled is caught at the call site: it never propagates out of the
\* handling of the inbound message (only a listener's exception does).
C29_ResponderExceptionCaught ==
    \A e \in Events : Rejected(e) => ListenerThrew(e)

\* C30: an exception thrown by a listener during the dispatch of an inbound
\* event is not caught by the dispatch loop: handlePortMessage fails with it,
\* no later listener is called and the topic's responder is not looked up.
C30_ListenerExceptionPropagates ==
    \A e \in Events :
        ListenerThrew(e) =>
            /\ Rejected(e)
            /\ events[e].found = NoResponder
            /\ events[e].data = NoResponder
            /\ \E k \in 1 .. Len(listeners) :
                  listeners[k].id = dispatch[e].last /\ listeners[k].kind = "throws"

\* The first of two listeners threw: the second was not called, and the
\* responder registered for the topic was not asked.
C30_Witness ==
    \E e \in Events :
        /\ Rejected(e) /\ ListenerThrew(e)
        /\ Len(listeners) = 2
        /\ dispatch[e].last = 1
        /\ autoResponders[UserTopic] # NoResponder


\* The responses sent to the plugin so far.
Responses == {k \in 1 .. Len(toPlugin) : toPlugin[k].type = "response"}

\* C31: an auto-responder registered by respond or respondOnce for a topic
\* is invoked for an inbound event on the topic if and only if the event
\* carries an eventId, whatever its value (0 included); an event without an
\* eventId produces no response and consumes no one-shot responder.
C31_InvokedIffEventIdCarried ==
    /\ \A e \in Events :
          (LookedUp(e) /\ Registered(events[e].found))
              => ((events[e].data = events[e].found) <=> events[e].hasEventId)
    /\ \A i \in ResponderIds : \A e \in InvokedBy(i) : events[e].hasEventId
    /\ Cardinality(Responses)
          <= Cardinality({e \in Events : events[e].hasEventId /\ events[e].pc = "done"})


\* The PATCH request was answered and its body could not be parsed.
UnparsablePatch(r) ==
    /\ req[r].pc = "done"
    /\ req[r].key = settingsKey("PATCH")
    /\ req[r].body.kind = "garbage"

\* C32: a PATCH plugin_settings request with an unparsable body, handled by
\* the default handler, is still fulfilled (no abort, no error), leaves the
\* settings record as it was, and is answered with an empty result.
C32_UnparsablePatchEmptyResult ==
    /\ \A r \in Requests :
          UnparsablePatch(r) => req[r].outcomes = <<FulfillJson(JsonArray(<<>>))>>
    /\ (settingsCall.op = "update" /\ settingsCall.arg = EmptyPartial)
          => settings = settingsCall.prior


\* The body of the request is given only as a message list.
MessagesOnly(r) == req[r].body.hasMessages /\ ~req[r].body.hasInstructions

\* The request found the two records of the scenario: the first tests the
\* instructions field for "lookup", the second for "example".
SawLookupThenExample(r) ==
    /\ req[r].pc # "idle"
    /\ Len(req[r].seen) = 2
    /\ req[r].seen[1].matcher = "instructsLookup"
    /\ req[r].seen[2].matcher = "instructsExample"

SettingsAbsent == settings = NullSettings

\* C34: the settings state becomes present only through insert or
\* setSettings(non-null) and becomes absent only through setSettings(null);
\* get and update never change whether it is absent or present, and insert
\* always leaves it present.
C34_AbsentPresentTransitions ==
    [][/\ (SettingsAbsent /\ ~SettingsAbsent') =>
             \/ settingsCall'.op = "insert"
             \/ settingsCall'.op = "set" /\ settingsCall'.arg # NullSettings
       /\ (~SettingsAbsent /\ SettingsAbsent') =>
             (settingsCall'.op = "set" /\ settingsCall'.arg = NullSettings)
       /\ settingsCall'.op \in {"get", "update"} => (SettingsAbsent' <=> SettingsAbsent)
       /\ settingsCall'.op = "insert" => ~SettingsAbsent']_vars

\* An update found the state absent and left it so.
C34_Witness ==
    /\ settingsCall.op = "update"
    /\ settingsCall.prior = NullSettings
    /\ settingsCall.arg["settings"] = "{theme}"
    /\ SettingsAbsent


\* The built-in responder was the topic's responder when the event was handled.
BuiltinFound(e) ==
    /\ events[e].topic \in BuiltinTopics
    /\ events[e].found = BuiltinResponder

\* C35: while the built-in responder of global.supabase.requestAccess or
\* global.profile.requestUserInfo is neither replaced nor removed, every
\* inbound event carrying an eventId on its topic receives a response, and
\* the response contains the session info or the profile as the most recent
\* setUserInfo left it.
C35_BuiltinAnswersCurrentSnapshot ==
    /\ [](\A e \in Events :
            (events[e].pc = "done" /\ events[e].hasEventId /\ BuiltinFound(e))
              => \E k \in 1 .. Len(toPlugin) :
                    /\ toPlugin[k] = ResponseMessage(events[e].eventId, events[e].topic,
                                                     events[e].data)
                    /\ events[e].data.kind = "builtin")
    /\ [][\A e \in Events :
            (events[e].pc = "respond" /\ events'[e].pc = "send" /\ BuiltinFound(e)')
              => /\ events'[e].data.profile = profile
                 /\ events'[e].data.info
                      = (IF events[e].topic = AccessTopic THEN "rimoriInfo" ELSE "userInfo")]_vars


\* The ids of the registrations the listeners hold.
RegisteredIds(registered) == {registered[k].id : k \in 1 .. Len(registered)}

\* The registrations of a state that another state still holds, in order.
Kept(registered, others) ==
    SelectSeq(registered, LAMBDA l : l.id \in RegisteredIds(others))

\* C36: the unsubscribe function on(topic, h) returned removes exactly the
\* registration that call made: a registration leaves the listeners only in
\* the first call of its own unsubscribe function, so every other listener of
\* the topic and of other topics stays, in the original order, a second call
\* removes nothing, and after the call h's registration is not in the
\* listeners the dispatch takes its handlers from.
C36_UnsubscribeRemovesExactlyItsRegistration ==
    /\ [][\A id \in RegisteredIds(listeners) \ RegisteredIds(listeners') :
            ~handles[id].called /\ handles'[id].called]_vars
    /\ [][Kept(listeners, listeners') = Kept(listeners', listeners)]_vars
    /\ [](\A id \in ListenerIds : handles[id].called => id \notin RegisteredIds(listeners))


\* The test calls the function closure i's registration returned, for the
\* first time.
FirstRemoveCall(i) == ~responders[i].called /\ responders'[i].called

\* The entry autoResponders holds for closure i.
RefOf(i) == [kind |-> responders[i].kind, id |-> i]

\* C37: once the responder of a respondOnce registration has been consumed
\* by a request, calling the function the registration returned changes no
\* registration: a responder registered for the topic after the consumption
\* stays registered.
C37_ConsumedRemoveIsNoOp ==
    [][\A i \in ClosureIds :
         (responders[i].kind = "respondOnce" /\ InvokedBy(i) # {} /\ FirstRemoveCall(i))
           => /\ autoResponders' = autoResponders
              /\ \A j \in ClosureIds : responders'[j].used = responders[j].used]_vars

\* The function of a consumed respondOnce registration was called while a
\* later responder of the topic was registered, and that one still is.
C37_Witness ==
    \E i \in ClosureIds, j \in ClosureIds :
        /\ responders[i].kind = "respondOnce"
        /\ InvokedBy(i) # {}
        /\ responders[i].called
        /\ j > i
        /\ ~responders[j].called
        /\ autoResponders[UserTopic] = RefOf(j)


\* C40: the function respond(T, a) or respondOnce(T, a) returned unregisters
\* only the responder that call registered: when a later respond or
\* respondOnce for T has replaced a with b, calling the earlier function
\* leaves b registered, so b still answers the requests on T.
C40_RemoveOnlyOwnResponder ==
    [][\A i \in ClosureIds :
         (/\ FirstRemoveCall(i)
          /\ autoResponders[responders[i].topic] # RefOf(i)
          /\ autoResponders[responders[i].topic] # NoResponder)
           => autoResponders' = autoResponders]_vars


\* The positions of the messages a step sends to the plugin.
SentNow == Len(toPlugin) + 1 .. Len(toPlugin')

\* C38 as stated: once Ready the simulator stays Ready, nothing is appended
\* to the pending-outbound queue while Ready, and no message, event or
\* response, is sent to the plugin while not Ready.
C38_NothingSentBeforeReady ==
    [][/\ isReady => isReady'
       /\ isReady => pendingOutbound' \in {pendingOutbound, <<>>}
       /\ SentNow # {} => isReady']_vars

\* C38: once Ready the simulator stays Ready, nothing is appended to the
\* pending-outbound queue while Ready, and no event is sent to the plugin
\* while not Ready; the response to a request of the plugin is sent, not
\* queued, as soon as the responder has produced its data, also while the
\* simulator is not Ready yet.
C38_NoEventSentBeforeReady ==
    [][/\ isReady => isReady'
       /\ isReady => pendingOutbound' \in {pendingOutbound, <<>>}
       /\ \A k \in SentNow : toPlugin'[k].type = "event" => isReady'
       /\ \A e \in Events :
             (events[e].pc = "send" /\ events'[e].pc = "done")
               => /\ toPlugin' = Append(toPlugin,
                                    ResponseMessage(events[e].eventId, events[e].topic,
                                                    events[e].data))
                  /\ pendingOutbound' = pendingOutbound]_vars

\* A response was sent while the simulator was not Ready and an emitted
\* event was waiting in the queue.
C38_Witness ==
    /\ ~isReady
    /\ Len(pendingOutbound) > 0
    /\ \E k \in 1 .. Len(toPlugin) : toPlugin[k].type = "response"


\* The request is resolved in this step: its delay is over.
Resolves(r) == req[r].pc = "delay" /\ req'[r].pc # "delay"

\* C39: resolving a request leaves every bucket as it was, except that the
\* selected record is taken out of the bucket of the request's route key when
\* the record has once: true and is still there: records without once and
\* records not selected stay (also when two overlapping requests selected
\* the same once record), the buckets of other route keys are untouched and
\* the remaining records keep their order.
C39_ResolveRemovesOnlySelectedOnce ==
    [][\A r \in Requests :
         Resolves(r)
           => /\ DOMAIN routes' = DOMAIN routes
              /\ \A key \in DOMAIN routes :
                    routes'[key] =
                      IF key = req[r].key /\ recordOf(r).once
                        THEN SelectSeq(routes[key], LAMBDA m : m.id # req[r].mock)
                        ELSE routes[key]]_vars

\* Two requests selected the same once record and both are resolved: the
\* record is gone, the other record of the bucket and the plugin_settings
\* buckets are there.
C39_Witness ==
    \E r \in Requests, q \in Requests :
        /\ r # q
        /\ req[r].pc = "done" /\ req[q].pc = "done"
        /\ req[r].mock # NoMock
        /\ req[r].mock = req[q].mock
        /\ recordOf(r).once
        /\ Len(routes[BackendKey]) = 1
        /\ routes[BackendKey][1].id # req[r].mock
        /\ \A method \in SettingsMethods : Len(routes[settingsKey(method)]) = 1

=============================================================================
